---------------------------- MODULE Spec2Model ----------------------------
(***************************************************************************)
(* A model of the RES emulator core: the iNES cartridge loader and the     *)
(* NROM mappers (src/src/rom.rs), the RomBus address decoder               *)
(* (src/src/bus.rs), and the CPU: its bus protocol, reset, fetch,          *)
(* addressing modes and instructions (src/src/cpu.rs).                     *)
(*                                                                         *)
(* Representation choices:                                                 *)
(*  - a byte array that starts zeroed (work RAM) is a finite map from the  *)
(*    indices holding a non-zero byte to that byte; every other index      *)
(*    reads 0.  Indexing goes through At/Put, which take the array size    *)
(*    where the code can index out of bounds.                              *)
(*  - a cartridge image is its length, its 16 header bytes, and a body     *)
(*    given by a fill pattern plus explicit bytes (the reset vector).      *)
(*  - a mapper's prg_rom / chr_rom, being straight copies of slices of the *)
(*    image, are kept as (image, offset of the slice).                     *)
(*  - a panic (panic!, todo!, index out of bounds, overflow in a build     *)
(*    with overflow checks) ends the process: the variable panic records   *)
(*    it and no action is enabled afterwards.                              *)
(***************************************************************************)
EXTENDS Naturals, Integers, Sequences, FiniteSets, TLC

VARIABLES
    overflow_checks,  \* the build profile: TRUE = debug (overflow panics), FALSE = release (wraps)
    file,             \* the cartridge file rom_reader reads
    pc,               \* position of main / the mapper harness
    panic,            \* "none", or the kind of panic that aborted the process
    reader,           \* what rom_reader returned: "none", "Ok", "Err"
    rom,              \* the mapper (Box<dyn Rom>): owned by the loader, then by RomBus
    address_bus,      \* RomBus.address_bus
    data_bus,         \* RomBus.data_bus
    control_bus,      \* RomBus.control_bus
    data,             \* RomBus.data, the 2 KiB work RAM
    register_a,       \* CPU.register_a
    register_x,       \* CPU.register_x
    register_y,       \* CPU.register_y
    stack_pointer,    \* CPU.stack_pointer
    status,           \* CPU.status
    program_counter,  \* CPU.program_counter
    opcode,           \* the opcode byte the run loop fetched last
    trace,            \* history: the bus accesses of the last CPU operation
    last,             \* history: the last mem_read / mem_write / mapper call and its result
    written,          \* history: per work-RAM cell, the byte last written through the bus
    before,           \* history: the CPU as it was when the last instruction was fetched
    hist              \* history: last and the registers of before, for the two steps before the last

vars ==
    << overflow_checks, file, pc, panic, reader, rom, address_bus, data_bus,
       control_bus, data, register_a, register_x, register_y, stack_pointer,
       status, program_counter, opcode, trace, last, written, before, hist >>

---------------------------------------------------------------------------
(* Bounds of the model *)

\* number of distinct fill patterns of cartridge bodies
NumSeeds ==
    1

\* number of evenly spaced probe addresses inside the ROM window
NumRomProbes ==
    12

---------------------------------------------------------------------------
(* Program constants *)

\* ControlSignal::MemEnable = 0b0000_0001
MemEnable ==
    1

\* ControlSignal::AccessMode = 0b0000_0010
AccessMode ==
    2

\* work RAM size, 0x0800
RamSize ==
    2048

\* first address of the ROM window, 0x8000
RomBase ==
    32768

\* Nrom128 prg_rom size, 0x4000
Prg128 ==
    16384

\* Nrom256 prg_rom size, 0x8000
Prg256 ==
    32768

\* chr_rom size, 0x2000
ChrSize ==
    8192

\* the image body length both load() implementations require, 0x6000
BodyLen ==
    24576

\* iNES header length
HeaderLen ==
    16

\* trainer length
TrainerLen ==
    512

\* reset vector address, 0xFFFC
ResetVector ==
    65532

Byte == 0..255

---------------------------------------------------------------------------
(* u8 / u16 arithmetic *)

RECURSIVE BitAnd(_, _)
\* a & b
BitAnd(a, b) ==
    IF a = 0 \/ b = 0 THEN 0
    ELSE (a % 2) * (b % 2) + 2 * BitAnd(a \div 2, b \div 2)

RECURSIVE BitOr(_, _)
\* a | b
BitOr(a, b) ==
    IF a = 0 THEN b
    ELSE IF b = 0 THEN a
    ELSE (IF a % 2 = 1 \/ b % 2 = 1 THEN 1 ELSE 0) + 2 * BitOr(a \div 2, b \div 2)

RECURSIVE BitXor(_, _)
\* a ^ b
BitXor(a, b) ==
    IF a = 0 THEN b
    ELSE IF b = 0 THEN a
    ELSE ((a + b) % 2) + 2 * BitXor(a \div 2, b \div 2)

\* !a on u8
BitNot8(a) ==
    255 - a

\* a + b on u16: the wrapped value, and whether it overflowed
Add16(a, b) ==
    [val |-> (a + b) % 65536, ovf |-> a + b > 65535]

\* a - b on u16: the wrapped value, and whether it overflowed
Sub16(a, b) ==
    [val |-> (a - b + 65536) % 65536, ovf |-> a < b]

---------------------------------------------------------------------------
(* Zero-initialised byte arrays, kept as finite maps of their non-zero cells *)

ZeroArray ==
    << >>

At(arr, i) ==
    IF i \in DOMAIN arr THEN arr[i] ELSE 0

Put(arr, i, v) ==
    IF v = 0
    THEN [j \in (DOMAIN arr) \ {i} |-> arr[j]]
    ELSE [j \in (DOMAIN arr) \cup {i} |-> IF j = i THEN v ELSE arr[j]]

---------------------------------------------------------------------------
(* Cartridge images (the Vec<u8> that fs::read returns) *)

\* body byte i of fill pattern seed: varies with the position inside a page,
\* with the page, and with the seed
Fill(seed, i) ==
    (i * 7 + (i \div 256) * 3 + seed * 83 + 1) % 256

\* raw[i], for i < raw.len
RawAt(raw, i) ==
    IF i < HeaderLen THEN raw.hdr[i + 1]
    ELSE IF i \in DOMAIN raw.patch THEN raw.patch[i]
    ELSE Fill(raw.seed, i)

NoImage ==
    [exists |-> FALSE, len |-> 0, hdr |-> << >>, seed |-> 0, patch |-> << >>]

\* An image of len bytes with the given header bytes 0..7, whose body carries the
\* 16-bit word vec where a 16 KiB PRG bank put after the header (and the trainer
\* the header announces) has its reset vector.
MkImage(b0, b3, prg, chr, b6, b7, len, seed, vec) ==
    LET off == HeaderLen + (IF (b6 \div 4) % 2 = 1 THEN TrainerLen ELSE 0)
        full == << b0, 69, 83, b3, prg, chr, b6, b7, 0, 0, 0, 0, 0, 0, 0, 0 >>
    IN  [exists |-> TRUE,
         len |-> len,
         hdr |-> [i \in 1..(IF len < HeaderLen THEN len ELSE HeaderLen) |-> full[i]],
         seed |-> seed,
         patch |-> ((off + 16380) :> (vec % 256)) @@ ((off + 16381) :> (vec \div 256))]

---------------------------------------------------------------------------
(* Mappers: src/src/rom.rs *)

\* Nrom128::new(): prg_rom and chr_rom zeroed
Nrom128_new ==
    [kind |-> "Nrom128", loaded |-> FALSE, raw |-> NoImage, prg_off |-> 0, chr_off |-> 0]

\* Nrom256::new(): prg_rom and chr_rom zeroed
Nrom256_new ==
    [kind |-> "Nrom256", loaded |-> FALSE, raw |-> NoImage, prg_off |-> 0, chr_off |-> 0]

\* EmptyRom::new()
EmptyRom_new ==
    [kind |-> "EmptyRom", loaded |-> FALSE, raw |-> NoImage, prg_off |-> 0, chr_off |-> 0]

\* self.prg_rom[i], for i inside the array
PrgRomAt(r, i) ==
    IF r.loaded THEN RawAt(r.raw, r.prg_off + i) ELSE 0

\* self.chr_rom[i], for i inside the array
ChrRomAt(r, i) ==
    IF r.loaded THEN RawAt(r.raw, r.chr_off + i) ELSE 0

\* raw[from..to].try_into(): the slice exists when to <= raw.len, and converts to
\* an array of n bytes when it has that length
SliceOk(raw, from, to, n) ==
    from <= to /\ to <= raw.len /\ to - from = n

\* Nrom128::load
Nrom128_load(r, raw, trainer) ==
    LET offset == IF trainer THEN TrainerLen + HeaderLen ELSE HeaderLen
    IN  IF raw.len # offset + BodyLen
        THEN [res |-> "Err", panic |-> "none", rom |-> r]
        ELSE IF ~SliceOk(raw, offset, Prg128 + offset, Prg128)
        THEN [res |-> "none", panic |-> "slice", rom |-> r]
        ELSE IF ~SliceOk(raw, Prg128 + offset, BodyLen + offset, ChrSize)
        THEN [res |-> "none", panic |-> "slice", rom |-> r]
        ELSE [res |-> "Ok", panic |-> "none",
              rom |-> [r EXCEPT !.loaded = TRUE, !.raw = raw,
                                !.prg_off = offset, !.chr_off = Prg128 + offset]]

\* Nrom256::load
Nrom256_load(r, raw, trainer) ==
    LET offset == IF trainer THEN TrainerLen + HeaderLen ELSE HeaderLen
    IN  IF raw.len # offset + BodyLen
        THEN [res |-> "Err", panic |-> "none", rom |-> r]
        ELSE IF ~SliceOk(raw, offset, Prg256 + offset, Prg256)
        THEN [res |-> "none", panic |-> "slice", rom |-> r]
        ELSE IF ~SliceOk(raw, Prg256 + offset, Prg256 + ChrSize + offset, ChrSize)
        THEN [res |-> "none", panic |-> "slice", rom |-> r]
        ELSE [res |-> "Ok", panic |-> "none",
              rom |-> [r EXCEPT !.loaded = TRUE, !.raw = raw,
                                !.prg_off = offset, !.chr_off = Prg256 + offset]]

\* Nrom128::prg_read without the % 0x4000
Nrom128_prg_read_no_mirror(r, address, chk) ==
    LET d == Sub16(address, RomBase)
        source_addr == d.val
    IN  IF d.ovf /\ chk THEN [panic |-> "overflow", val |-> 0]
        ELSE IF source_addr >= Prg128 THEN [panic |-> "index", val |-> 0]
        ELSE [panic |-> "none", val |-> PrgRomAt(r, source_addr)]

\* Nrom128::prg_read
Nrom128_prg_read(r, address, chk) ==
    LET d == Sub16(address, RomBase)
        source_addr == d.val % Prg128
    IN  IF d.ovf /\ chk THEN [panic |-> "overflow", val |-> 0]
        ELSE IF source_addr >= Prg128 THEN [panic |-> "index", val |-> 0]
        ELSE [panic |-> "none", val |-> PrgRomAt(r, source_addr)]

\* Nrom256::prg_read
Nrom256_prg_read(r, address) ==
    IF address >= Prg256 THEN [panic |-> "index", val |-> 0]
    ELSE [panic |-> "none", val |-> PrgRomAt(r, address)]

\* Nrom128::chr_read, Nrom256::chr_read
Nrom_chr_read(r, address) ==
    IF address >= ChrSize THEN [panic |-> "index", val |-> 0]
    ELSE [panic |-> "none", val |-> ChrRomAt(r, address)]

\* (*rom).load(raw, trainer)
Rom_load(r, raw, trainer) ==
    CASE r.kind = "Nrom128" -> Nrom128_load(r, raw, trainer)
      [] r.kind = "Nrom256" -> Nrom256_load(r, raw, trainer)
      [] OTHER -> [res |-> "none", panic |-> "empty", rom |-> r]

\* (*rom).prg_read(address)
Rom_prg_read(r, address, chk) ==
    CASE r.kind = "Nrom128" -> Nrom128_prg_read(r, address, chk)
      [] r.kind = "Nrom256" -> Nrom256_prg_read(r, address)
      [] OTHER -> [panic |-> "empty", val |-> 0]

\* (*rom).chr_read(address)
Rom_chr_read(r, address) ==
    CASE r.kind = "EmptyRom" -> [panic |-> "empty", val |-> 0]
      [] OTHER -> Nrom_chr_read(r, address)

---------------------------------------------------------------------------
(* Cartridge loader: src/src/rom.rs, rom_reader *)

\* the header test of line 16, evaluated left to right with short-circuit ||:
\* "index" when a byte it indexes is past the end, "header" when a byte differs
MagicCheck(raw) ==
    IF raw.len < 1 THEN "index"
    ELSE IF RawAt(raw, 0) # 78 THEN "header"
    ELSE IF raw.len < 2 THEN "index"
    ELSE IF RawAt(raw, 1) # 69 THEN "header"
    ELSE IF raw.len < 3 THEN "index"
    ELSE IF RawAt(raw, 2) # 83 THEN "header"
    ELSE "ok"

\* line 24: (raw[7] & 0b1100 >> 1) == 0b10; >> binds tighter than &
InesVersion(b7) ==
    IF BitAnd(b7, 12 \div 2) = 2 THEN 2 ELSE 1

\* line 23
RomMapper(b6, b7) ==
    BitOr(BitAnd(b6, 240) \div 16, BitAnd(b7, 240))

\* rom_reader(), given what fs::read finds
rom_reader(f) ==
    IF ~f.exists THEN [res |-> "Err", panic |-> "none", rom |-> EmptyRom_new]
    ELSE IF MagicCheck(f) # "ok"
    THEN [res |-> "none", panic |-> MagicCheck(f), rom |-> EmptyRom_new]
    ELSE IF f.len < HeaderLen THEN [res |-> "Err", panic |-> "none", rom |-> EmptyRom_new]
    ELSE
    LET prg_rom_chunks == RawAt(f, 4)
        trainer == BitAnd(RawAt(f, 6), 4) # 0
        rom_mapper == RomMapper(RawAt(f, 6), RawAt(f, 7))
        ines_version == InesVersion(RawAt(f, 7))
    IN  IF ines_version # 1
        THEN [res |-> "none", panic |-> "version", rom |-> EmptyRom_new]
        ELSE IF rom_mapper # 0 THEN [res |-> "Err", panic |-> "none", rom |-> EmptyRom_new]
        ELSE IF prg_rom_chunks \notin {1, 2}
        THEN [res |-> "Err", panic |-> "none", rom |-> EmptyRom_new]
        ELSE LET fresh == IF prg_rom_chunks = 1 THEN Nrom128_new ELSE Nrom256_new
                 l == Rom_load(fresh, f, trainer)
             IN  IF l.res = "Ok" THEN l
                 ELSE [res |-> l.res, panic |-> l.panic, rom |-> EmptyRom_new]

---------------------------------------------------------------------------
(* RomBus: src/src/bus.rs *)

\* The bus as a value the operators below transform.  log is history: the
\* accesses update() carried out.
Bus ==
    [address_bus |-> address_bus, data_bus |-> data_bus, control_bus |-> control_bus,
     data |-> data, rom |-> rom, panic |-> panic, log |-> << >>]

\* RomBus::new()
RomBus_new ==
    [address_bus |-> 0, data_bus |-> 0, control_bus |-> 0,
     data |-> ZeroArray, rom |-> EmptyRom_new, panic |-> "none", log |-> << >>]

\* RomBus::set_rom
set_rom(b, r) ==
    [b EXCEPT !.rom = r]

\* the arms of the read branch's match, in order; the trailing `_` arm is "todo"
ReadArms ==
    << [lo |-> 0,     hi |-> 8191,  region |-> "ram"],
       [lo |-> 8192,  hi |-> 16383, region |-> "ppu"],
       [lo |-> 16384, hi |-> 16407, region |-> "apu_io"],
       [lo |-> 16408, hi |-> 16415, region |-> "disabled"],
       [lo |-> 24576, hi |-> 32767, region |-> "cart_ram"],
       [lo |-> 32768, hi |-> 65535, region |-> "rom"] >>

\* the arms of the write branch's match, in order; the trailing `_` arm is "todo"
WriteArms ==
    << [lo |-> 0,     hi |-> 8191,  region |-> "ram"],
       [lo |-> 8192,  hi |-> 16383, region |-> "ppu"],
       [lo |-> 16384, hi |-> 16407, region |-> "apu_io"],
       [lo |-> 16408, hi |-> 16415, region |-> "disabled"],
       [lo |-> 24576, hi |-> 32767, region |-> "cart_ram"],
       [lo |-> 32768, hi |-> 65535, region |-> "rom"] >>

\* the arms of a match that addr falls in
Hits(arms, addr) ==
    {i \in 1..Len(arms) : arms[i].lo <= addr /\ addr <= arms[i].hi}

\* match addr { ... }: the first arm that matches, else the wildcard arm
MatchArm(arms, addr) ==
    LET hits == Hits(arms, addr)
    IN  IF hits = {} THEN "todo"
        ELSE arms[CHOOSE i \in hits : \A j \in hits : i <= j].region

\* RomBus::get_control_signal
get_control_signal(b, control) ==
    BitAnd(b.control_bus, control) # 0

\* RomBus::update, read branch (AccessMode set)
update_read(b) ==
    LET region == MatchArm(ReadArms, b.address_bus)
    IN  CASE region = "ram" ->
               [b EXCEPT !.data_bus = At(b.data, b.address_bus % RamSize)]
          [] region = "rom" ->
               LET r == Rom_prg_read(b.rom, b.address_bus, overflow_checks)
               IN  IF r.panic # "none" THEN [b EXCEPT !.panic = r.panic]
                   ELSE [b EXCEPT !.data_bus = r.val]
          [] region = "todo" -> [b EXCEPT !.panic = "todo"]
          [] OTHER -> b

\* update_write with the RAM arm keeping one mirror bit: index addr % 0x1000
update_write_mirror12(b) ==
    LET region == MatchArm(WriteArms, b.address_bus)
    IN  CASE region = "ram" /\ b.address_bus % 4096 < RamSize ->
               [b EXCEPT !.data = Put(b.data, b.address_bus % 4096, b.data_bus)]
          [] region = "ram" /\ b.address_bus % 4096 >= RamSize -> [b EXCEPT !.panic = "index"]
          [] region = "rom" -> [b EXCEPT !.panic = "rom_write"]
          [] region = "todo" -> [b EXCEPT !.panic = "todo"]
          [] OTHER -> b

\* update_write with the ROM arm treated like the mirrored RAM arm
update_write_rom_as_ram(b) ==
    LET region == MatchArm(WriteArms, b.address_bus)
    IN  CASE region \in {"ram", "rom"} ->
               [b EXCEPT !.data = Put(b.data, b.address_bus % RamSize, b.data_bus)]
          [] region = "todo" -> [b EXCEPT !.panic = "todo"]
          [] OTHER -> b

\* update_write with an empty wildcard arm
update_write_silent_wildcard(b) ==
    LET region == MatchArm(WriteArms, b.address_bus)
    IN  CASE region = "ram" ->
               [b EXCEPT !.data = Put(b.data, b.address_bus % RamSize, b.data_bus)]
          [] region = "rom" -> [b EXCEPT !.panic = "rom_write"]
          [] OTHER -> b

\* update_write with the device and cartridge-RAM arms storing into work RAM
update_write_stub_into_ram(b) ==
    LET region == MatchArm(WriteArms, b.address_bus)
    IN  CASE region = "rom" -> [b EXCEPT !.panic = "rom_write"]
          [] region = "todo" -> [b EXCEPT !.panic = "todo"]
          [] OTHER -> [b EXCEPT !.data = Put(b.data, b.address_bus % RamSize, b.data_bus)]

\* RomBus::update, write branch (AccessMode clear)
update_write(b) ==
    LET region == MatchArm(WriteArms, b.address_bus)
    IN  CASE region = "ram" ->
               [b EXCEPT !.data = Put(b.data, b.address_bus % RamSize, b.data_bus)]
          [] region = "rom" -> [b EXCEPT !.panic = "rom_write"]
          [] region = "todo" -> [b EXCEPT !.panic = "todo"]
          [] OTHER -> b

\* history: an access that update() completed is appended to the log
Logged(b, op) ==
    IF b.panic # "none" THEN b
    ELSE [b EXCEPT !.log = Append(@, [op |-> op, addr |-> b.address_bus,
                                      val |-> b.data_bus])]

\* RomBus::update
update(b) ==
    IF ~get_control_signal(b, MemEnable) THEN b
    ELSE IF get_control_signal(b, AccessMode) THEN Logged(update_read(b), "read")
    ELSE Logged(update_write(b), "write")

\* RomBus::set_address_bus
set_address_bus(b, addr) ==
    IF b.panic # "none" THEN b ELSE [b EXCEPT !.address_bus = addr]

\* RomBus::set_data_bus
set_data_bus(b, val) ==
    IF b.panic # "none" THEN b ELSE [b EXCEPT !.data_bus = val]

\* RomBus::get_data_bus
get_data_bus(b) ==
    b.data_bus

\* RomBus::set_control_signal
set_control_signal(b, control, val) ==
    IF b.panic # "none" THEN b
    ELSE update([b EXCEPT !.control_bus = IF val THEN BitOr(@, control)
                                          ELSE BitAnd(@, BitNot8(control))])

---------------------------------------------------------------------------
(* CPU: src/src/cpu.rs *)

\* CPU::mem_read, lines 108-110: the data bus is read, then MemEnable dropped
mem_read_end(b) ==
    [bus |-> set_control_signal(b, MemEnable, FALSE), val |-> get_data_bus(b)]

\* CPU::mem_read: the bus afterwards and the byte returned
mem_read(b, addr) ==
    LET b1 == set_control_signal(b, MemEnable, FALSE)
        b2 == set_address_bus(b1, addr)
        b3 == set_control_signal(b2, AccessMode, TRUE)
        b4 == set_control_signal(b3, MemEnable, TRUE)
    IN  mem_read_end(b4)

\* mem_write without the final set_control_signal(MemEnable, false)
mem_write_keeps_enable(b, addr, value) ==
    LET b1 == set_control_signal(b, MemEnable, FALSE)
        b2 == set_address_bus(b1, addr)
        b3 == set_control_signal(b2, AccessMode, FALSE)
        b4 == set_data_bus(b3, value)
    IN  set_control_signal(b4, MemEnable, TRUE)

\* CPU::mem_write: the bus afterwards
mem_write(b, addr, value) ==
    LET b1 == set_control_signal(b, MemEnable, FALSE)
        b2 == set_address_bus(b1, addr)
        b3 == set_control_signal(b2, AccessMode, FALSE)
        b4 == set_data_bus(b3, value)
        b5 == set_control_signal(b4, MemEnable, TRUE)
    IN  set_control_signal(b5, MemEnable, FALSE)

\* a panic of the CPU itself, recorded on the bus value it owns
Abort(b, why) ==
    IF b.panic # "none" THEN b ELSE [b EXCEPT !.panic = why]

\* word_of with the two bytes in big-endian order
word_of_big_endian(lo, hi) ==
    [bus |-> hi.bus, val |-> BitOr(lo.val * 256, hi.val)]

\* CPU::mem_read_u16, line 125: (hi << 8) | lo, with hi the second byte read
word_of(lo, hi) ==
    [bus |-> hi.bus, val |-> BitOr(hi.val * 256, lo.val)]

\* CPU::mem_read_u16, line 124, after lo was read: addr + 1, then the second read
mem_read_hi(lo, addr) ==
    IF lo.bus.panic # "none" THEN [bus |-> lo.bus, val |-> 0]
    ELSE IF Add16(addr, 1).ovf /\ overflow_checks
    THEN [bus |-> Abort(lo.bus, "overflow"), val |-> 0]
    ELSE word_of(lo, mem_read(lo.bus, Add16(addr, 1).val))

\* CPU::mem_read_u16: the bus afterwards and the word returned
mem_read_u16(b, addr) ==
    mem_read_hi(mem_read(b, addr), addr)

\* CPU::fetch, lines 149-151, after the byte r was read at p: p + 1
fetch_end(r, p) ==
    IF r.bus.panic # "none" THEN [bus |-> r.bus, val |-> 0, pc |-> p]
    ELSE IF Add16(p, 1).ovf /\ overflow_checks
    THEN [bus |-> Abort(r.bus, "overflow"), val |-> r.val, pc |-> p]
    ELSE [bus |-> r.bus, val |-> r.val, pc |-> Add16(p, 1).val]

\* CPU::fetch at program counter p: the bus afterwards, the byte, the new counter
fetch(b, p) ==
    fetch_end(mem_read(b, p), p)

\* CPU::new: the registers of a fresh CPU
CPU_new ==
    [register_a |-> 0, register_x |-> 0, register_y |-> 0,
     stack_pointer |-> 255, status |-> 32, program_counter |-> 0]

---------------------------------------------------------------------------
(* CPU registers, flags and addressing: src/src/cpu.rs *)

FlagN ==
    128

FlagV ==
    64

FlagB ==
    16

FlagD ==
    8

FlagI ==
    4

FlagZ ==
    2

FlagC ==
    1

\* the CPU as a value the instructions transform; memory is the bus it owns
Cpu ==
    [register_a |-> register_a, register_x |-> register_x, register_y |-> register_y,
     stack_pointer |-> stack_pointer, status |-> status,
     program_counter |-> program_counter, memory |-> Bus]

\* the process has panicked
Halted(c) ==
    c.memory.panic # "none"

\* a panic raised by CPU code
Stop(c, why) ==
    [c EXCEPT !.memory = Abort(@, why)]

\* a + b on u8: the wrapped value, and whether it overflowed
Add8(a, b) ==
    [val |-> (a + b) % 256, ovf |-> a + b > 255]

\* v << n on u8, n < 8
Shl8(v, n) ==
    (v * 2 ^ n) % 256

\* v >> n on u8, n < 8
Shr8(v, n) ==
    v \div 2 ^ n

\* a Rust `let r = e; body`, written Let([r \in {e} |-> body]): e is computed
\* once however often body names r
Let(f) ==
    f[CHOOSE r \in DOMAIN f : TRUE]

\* CPU::set_flag
set_flag(c, flag, val) ==
    [c EXCEPT !.status = IF val THEN BitOr(@, flag) ELSE BitAnd(@, BitNot8(flag))]

\* CPU::get_flag
get_flag(c, flag) ==
    BitAnd(c.status, flag) # 0

\* get_flag(..) as u8
flag_u8(c, flag) ==
    IF get_flag(c, flag) THEN 1 ELSE 0

\* CPU::set_zero
set_zero(c, result) ==
    set_flag(c, FlagZ, result = 0)

\* CPU::set_negative
set_negative(c, result) ==
    set_flag(c, FlagN, BitAnd(128, result) # 0)

\* CPU::set_carry
set_carry(c, a, b, result) ==
    set_flag(c, FlagC, BitAnd(BitOr(a, b), 128) # 0 /\ BitAnd(result, 128) = 0)

\* set_overflow without the comparison of the operands' signs
set_overflow_result_sign(c, a, b, result) ==
    set_flag(c, FlagV, BitAnd(a, 128) # BitAnd(result, 128))

\* CPU::set_overflow
set_overflow(c, a, b, result) ==
    set_flag(c, FlagV, BitAnd(a, 128) = BitAnd(b, 128)
                       /\ BitAnd(a, 128) # BitAnd(result, 128))

\* self.mem_read(addr): the CPU afterwards and the byte read
cpu_read(c, addr) ==
    Let([r \in {mem_read(c.memory, addr)} |->
            [cpu |-> [c EXCEPT !.memory = r.bus], val |-> r.val]])

\* self.mem_read_u16(addr): the CPU afterwards and the word read
cpu_read_u16(c, addr) ==
    Let([r \in {mem_read_u16(c.memory, addr)} |->
            [cpu |-> [c EXCEPT !.memory = r.bus], val |-> r.val]])

\* self.mem_write(addr, value)
cpu_write(c, addr, value) ==
    [c EXCEPT !.memory = mem_write(@, addr, value)]

\* self.fetch(): the CPU afterwards and the byte fetched
cpu_fetch(c) ==
    Let([f \in {fetch(c.memory, c.program_counter)} |->
            [cpu |-> [c EXCEPT !.memory = f.bus, !.program_counter = f.pc],
             val |-> f.val]])

\* CPU::get_target_address: the CPU afterwards and the effective address.
\* Every arm but Immediate starts with a fetch f; base is what the arm adds its
\* last index to: the byte fetched, the word completed by a second fetch, or the
\* word mem_read_u16 returns (after the index IndexedIndirect adds first).
get_target_address(c, mode) ==
    IF mode = "Immediate"
    THEN IF Add16(c.program_counter, 1).ovf /\ overflow_checks
         THEN [cpu |-> Stop(c, "overflow"), addr |-> 0]
         ELSE [cpu |-> [c EXCEPT !.program_counter = Add16(@, 1).val],
               addr |-> c.program_counter]
    ELSE Let([f \in {cpu_fetch(c)} |->
         Let([base \in {CASE mode \in {"ZeroPage", "ZeroPageX", "ZeroPageY"} -> f
               [] mode \in {"Absolute", "AbsoluteX", "AbsoluteY"} ->
                    Let([hi \in {cpu_fetch(f.cpu)} |->
                        [cpu |-> hi.cpu, val |-> BitOr(hi.val * 256, f.val)]])
               [] mode \in {"Indirect", "IndexedIndirectX", "IndexedIndirectY",
                            "IndirectIndexedX", "IndirectIndexedY"} ->
                    IF Halted(f.cpu) THEN f
                    ELSE cpu_read_u16(f.cpu,
                             f.val + (CASE mode = "IndexedIndirectX" -> c.register_x
                                        [] mode = "IndexedIndirectY" -> c.register_y
                                        [] OTHER -> 0))} |->
         Let([index \in {CASE mode \in {"ZeroPageX", "AbsoluteX", "IndirectIndexedX"} ->
                                   c.register_x
                             [] mode \in {"ZeroPageY", "AbsoluteY", "IndirectIndexedY"} ->
                                   c.register_y
                             [] OTHER -> 0} |->
                 IF Halted(base.cpu) THEN [cpu |-> base.cpu, addr |-> 0]
                 ELSE IF Add16(base.val, index).ovf /\ overflow_checks
                 THEN [cpu |-> Stop(base.cpu, "overflow"), addr |-> 0]
                 ELSE [cpu |-> base.cpu, addr |-> Add16(base.val, index).val]])])])

\* let addr = self.get_target_address(mode); self.mem_read(addr): the CPU
\* afterwards, the byte read and the address it was read at
operand(c, mode) ==
    Let([t \in {get_target_address(c, mode)} |->
    Let([r \in {cpu_read(t.cpu, t.addr)} |->
        [cpu |-> r.cpu, val |-> r.val, addr |-> t.addr]])])

---------------------------------------------------------------------------
(* Instructions: src/src/cpu.rs.  An instruction that starts with
   get_target_address and mem_read takes o, the result of operand(c, mode). *)

\* CPU::stack_push: the write, then stack_pointer -= 1
stack_push(c, val) ==
    Let([w \in {cpu_write(c, 256 + c.stack_pointer, val)} |->
        IF Halted(w) THEN w
        ELSE IF w.stack_pointer = 0 /\ overflow_checks THEN Stop(w, "overflow")
        ELSE [w EXCEPT !.stack_pointer = (@ + 255) % 256]])

\* stack_pop reading the cell the stack pointer names before incrementing it
stack_pop_then_increment(c) ==
    IF Halted(c) THEN [cpu |-> c, val |-> 0]
    ELSE IF c.stack_pointer = 255 /\ overflow_checks
    THEN [cpu |-> Stop(c, "overflow"), val |-> 0]
    ELSE cpu_read([c EXCEPT !.stack_pointer = (@ + 1) % 256], 256 + c.stack_pointer)

\* CPU::stack_pop: the CPU afterwards and the byte popped
stack_pop(c) ==
    IF Halted(c) THEN [cpu |-> c, val |-> 0]
    ELSE IF c.stack_pointer = 255 /\ overflow_checks
    THEN [cpu |-> Stop(c, "overflow"), val |-> 0]
    ELSE cpu_read([c EXCEPT !.stack_pointer = (@ + 1) % 256],
                  256 + ((c.stack_pointer + 1) % 256))

\* CPU::adc, lines 236-244
adc(o) ==
    LET old == o.cpu.register_a
        s1 == Add8(old, o.val)
        s2 == Add8(s1.val, flag_u8(o.cpu, FlagC))
    IN  IF Halted(o.cpu) THEN o.cpu
        ELSE IF overflow_checks /\ (s1.ovf \/ s2.ovf) THEN Stop(o.cpu, "overflow")
        ELSE set_overflow(
                 set_carry(set_negative(set_zero([o.cpu EXCEPT !.register_a = s2.val],
                                                 s2.val),
                                        s2.val),
                           old, o.val, s2.val),
                 old, o.val, s2.val)

\* CPU::and, lines 250-253
and(o) ==
    IF Halted(o.cpu) THEN o.cpu
    ELSE set_negative(set_zero([o.cpu EXCEPT !.register_a = BitAnd(@, o.val)],
                               BitAnd(o.cpu.register_a, o.val)),
                      BitAnd(o.cpu.register_a, o.val))

\* the tail of a shift, rotate, inc or dec: self.mem_write(addr, new), then
\* set_flag(flag, val), set_zero(new), set_negative(new)
write_back(o, new, flag, val) ==
    Let([w \in {cpu_write(o.cpu, o.addr, new)} |->
        IF Halted(w) THEN w
        ELSE set_negative(set_zero(set_flag(w, flag, val), new), new)])

\* asl with the carry taken from bit 7 of the shifted value
asl_carry_from_new(o) ==
    IF Halted(o.cpu) THEN o.cpu
    ELSE write_back(o, Shl8(o.val, 1), FlagC, BitAnd(Shl8(o.val, 1), 128) # 0)

\* CPU::asl, lines 259-265
asl(o) ==
    IF Halted(o.cpu) THEN o.cpu
    ELSE write_back(o, Shl8(o.val, 1), FlagC, BitAnd(o.val, 128) # 0)

\* CPU::bit, lines 272-276
bit(o) ==
    IF Halted(o.cpu) THEN o.cpu
    ELSE set_flag(set_flag(set_flag(o.cpu, FlagZ, BitAnd(o.cpu.register_a, o.val) = 0),
                           FlagN, BitAnd(o.val, 128) # 0),
                  FlagV, BitAnd(o.val, 64) # 0)

\* macro cp!, lines 51-54: cmp, cpx, cpy by the register compared
cp(o, reg) ==
    IF Halted(o.cpu) THEN o.cpu
    ELSE set_flag(set_flag(o.cpu, FlagC, o.cpu[reg] >= o.val),
                  FlagZ, o.cpu[reg] = o.val)

\* jump_rel without the early return on a false condition
jump_rel_always(c, condition) ==
    Let([f \in {cpu_fetch(c)} |->
    Let([sum \in {Add16(f.cpu.program_counter,
                        IF BitAnd(f.val, 128) = 0 THEN BitAnd(f.val, 127)
                        ELSE BitOr(f.val, 65280))} |->
        IF Halted(f.cpu) THEN f.cpu
        ELSE IF sum.ovf /\ overflow_checks THEN Stop(f.cpu, "overflow")
        ELSE [f.cpu EXCEPT !.program_counter = sum.val]])])

\* CPU::jump_rel, lines 282-289
jump_rel(c, condition) ==
    Let([f \in {cpu_fetch(c)} |->
    Let([sum \in {Add16(f.cpu.program_counter,
              IF BitAnd(f.val, 128) = 0 THEN BitAnd(f.val, 127)
              ELSE BitOr(f.val, 65280))} |->
        IF Halted(f.cpu) \/ ~condition THEN f.cpu
        ELSE IF sum.ovf /\ overflow_checks THEN Stop(f.cpu, "overflow")
        ELSE [f.cpu EXCEPT !.program_counter = sum.val]])])

\* CPU::dec, lines 293-298: mem_read(addr) + 0b1111_1111
dec(o) ==
    IF Halted(o.cpu) THEN o.cpu
    ELSE IF Add8(o.val, 255).ovf /\ overflow_checks THEN Stop(o.cpu, "overflow")
    ELSE write_back(o, Add8(o.val, 255).val, FlagZ, Add8(o.val, 255).val = 0)

\* CPU::eor, lines 302-306
eor(o) ==
    IF Halted(o.cpu) THEN o.cpu
    ELSE set_negative(set_zero([o.cpu EXCEPT !.register_a = BitOr(@, o.val)],
                               BitOr(o.cpu.register_a, o.val)),
                      BitOr(o.cpu.register_a, o.val))

\* CPU::inc, lines 310-315
inc(o) ==
    IF Halted(o.cpu) THEN o.cpu
    ELSE IF Add8(o.val, 1).ovf /\ overflow_checks THEN Stop(o.cpu, "overflow")
    ELSE write_back(o, Add8(o.val, 1).val, FlagZ, Add8(o.val, 1).val = 0)

\* CPU::jmp, after get_target_address returned t
jmp(t) ==
    IF Halted(t.cpu) THEN t.cpu ELSE [t.cpu EXCEPT !.program_counter = t.addr]

\* ld! without its set_negative call
ld_without_negative(o, reg) ==
    IF Halted(o.cpu) THEN o.cpu
    ELSE set_zero([o.cpu EXCEPT ![reg] = o.val], o.val)

\* macro ld!, lines 67-70: lda, ldx, ldy by the register loaded
ld(o, reg) ==
    IF Halted(o.cpu) THEN o.cpu
    ELSE set_negative(set_zero([o.cpu EXCEPT ![reg] = o.val], o.val), o.val)

\* CPU::lsr, lines 327-334
lsr(o) ==
    IF Halted(o.cpu) THEN o.cpu
    ELSE write_back(o, Shr8(o.val, 1), FlagC, BitAnd(o.val, 1) # 0)

\* CPU::ora, lines 338-343
ora(o) ==
    IF Halted(o.cpu) THEN o.cpu
    ELSE set_negative(set_zero([o.cpu EXCEPT !.register_a = BitOr(@, o.val)],
                               BitOr(o.cpu.register_a, o.val)),
                      BitOr(o.cpu.register_a, o.val))

\* CPU::rol, lines 348-354: (val << 1) + carry cannot overflow
rol(o) ==
    IF Halted(o.cpu) THEN o.cpu
    ELSE write_back(o, Shl8(o.val, 1) + flag_u8(o.cpu, FlagC),
                    FlagC, BitAnd(o.val, 128) # 0)

\* CPU::ror, lines 358-364
ror(o) ==
    IF Halted(o.cpu) THEN o.cpu
    ELSE write_back(o, BitOr(Shr8(o.val, 1), Shl8(flag_u8(o.cpu, FlagC), 7)),
                    FlagC, BitAnd(o.val, 1) # 0)

\* CPU::sbc: todo!()
sbc(c) ==
    Stop(c, "todo")

\* macro st!, after get_target_address returned t: sta, stx, sty by the register
st(t, reg) ==
    IF Halted(t.cpu) THEN t.cpu ELSE cpu_write(t.cpu, t.addr, t.cpu[reg])

\* CPU::run, lines 384-682: the arm of every opcode byte the match names, as
\* << instruction, addressing mode >>; a byte not listed takes the `_` arm
OpTable ==
    (0 :> << "brk", "Implied" >>) @@ (1 :> << "ora", "IndexedIndirectX" >>) @@ (5 :> << "ora", "ZeroPage" >>)
    @@ (6 :> << "asl", "ZeroPage" >>) @@ (8 :> << "php", "Implied" >>) @@ (9 :> << "ora", "Immediate" >>)
    @@ (10 :> << "asl_a", "Implied" >>) @@ (13 :> << "ora", "Absolute" >>) @@ (14 :> << "asl", "Absolute" >>)
    @@ (16 :> << "bpl", "Implied" >>) @@ (17 :> << "ora", "IndirectIndexedY" >>) @@ (21 :> << "ora", "ZeroPageX" >>)
    @@ (22 :> << "asl", "ZeroPageX" >>) @@ (24 :> << "clc", "Implied" >>) @@ (25 :> << "ora", "AbsoluteY" >>)
    @@ (29 :> << "ora", "AbsoluteX" >>) @@ (30 :> << "asl", "AbsoluteX" >>) @@ (32 :> << "jsr", "Implied" >>)
    @@ (33 :> << "and", "IndexedIndirectX" >>) @@ (36 :> << "bit", "ZeroPage" >>) @@ (37 :> << "and", "ZeroPage" >>)
    @@ (38 :> << "rol", "ZeroPage" >>) @@ (40 :> << "plp", "Implied" >>) @@ (41 :> << "and", "Immediate" >>)
    @@ (42 :> << "rol_a", "Implied" >>) @@ (44 :> << "bit", "Absolute" >>) @@ (45 :> << "and", "Absolute" >>)
    @@ (46 :> << "rol", "Absolute" >>) @@ (48 :> << "bmi", "Implied" >>) @@ (49 :> << "and", "IndirectIndexedY" >>)
    @@ (53 :> << "and", "ZeroPageX" >>) @@ (54 :> << "rol", "ZeroPageX" >>) @@ (56 :> << "sec", "Implied" >>)
    @@ (57 :> << "and", "AbsoluteY" >>) @@ (61 :> << "and", "AbsoluteX" >>) @@ (62 :> << "rol", "AbsoluteX" >>)
    @@ (64 :> << "rti", "Implied" >>) @@ (65 :> << "eor", "IndexedIndirectX" >>) @@ (69 :> << "eor", "ZeroPage" >>)
    @@ (70 :> << "lsr", "ZeroPage" >>) @@ (72 :> << "pha", "Implied" >>) @@ (73 :> << "eor", "Immediate" >>)
    @@ (74 :> << "lsr_a", "Implied" >>) @@ (76 :> << "jmp", "Absolute" >>) @@ (77 :> << "eor", "Absolute" >>)
    @@ (78 :> << "lsr", "Absolute" >>) @@ (80 :> << "bvc", "Implied" >>) @@ (81 :> << "eor", "IndirectIndexedY" >>)
    @@ (84 :> << "lsr", "AbsoluteX" >>) @@ (85 :> << "eor", "ZeroPageX" >>) @@ (86 :> << "lsr", "ZeroPageX" >>)
    @@ (88 :> << "cli", "Implied" >>) @@ (89 :> << "eor", "AbsoluteY" >>) @@ (93 :> << "eor", "AbsoluteX" >>)
    @@ (96 :> << "rts", "Implied" >>) @@ (97 :> << "adc", "IndexedIndirectX" >>) @@ (101 :> << "adc", "ZeroPage" >>)
    @@ (102 :> << "ror", "ZeroPage" >>) @@ (104 :> << "pla", "Implied" >>) @@ (105 :> << "adc", "Immediate" >>)
    @@ (106 :> << "ror_a", "Implied" >>) @@ (108 :> << "jmp", "Indirect" >>) @@ (109 :> << "adc", "Absolute" >>)
    @@ (110 :> << "ror", "Absolute" >>) @@ (112 :> << "bvs", "Implied" >>) @@ (113 :> << "adc", "IndirectIndexedY" >>)
    @@ (117 :> << "adc", "ZeroPageX" >>) @@ (118 :> << "ror", "ZeroPageX" >>) @@ (120 :> << "sei", "Implied" >>)
    @@ (121 :> << "adc", "AbsoluteY" >>) @@ (125 :> << "adc", "AbsoluteX" >>) @@ (126 :> << "ror", "AbsoluteX" >>)
    @@ (129 :> << "sta", "IndexedIndirectX" >>) @@ (132 :> << "sty", "ZeroPage" >>) @@ (133 :> << "sta", "ZeroPage" >>)
    @@ (134 :> << "stx", "ZeroPage" >>) @@ (136 :> << "dey", "Implied" >>) @@ (138 :> << "txa", "Implied" >>)
    @@ (140 :> << "sty", "Absolute" >>) @@ (141 :> << "sta", "Absolute" >>) @@ (142 :> << "stx", "Absolute" >>)
    @@ (144 :> << "bcc", "Implied" >>) @@ (145 :> << "sta", "IndirectIndexedY" >>) @@ (148 :> << "sty", "ZeroPageX" >>)
    @@ (149 :> << "sta", "ZeroPageX" >>) @@ (150 :> << "stx", "ZeroPageY" >>) @@ (152 :> << "tya", "Implied" >>)
    @@ (153 :> << "sta", "AbsoluteY" >>) @@ (154 :> << "txs", "Implied" >>) @@ (157 :> << "sta", "AbsoluteX" >>)
    @@ (160 :> << "ldy", "Immediate" >>) @@ (161 :> << "lda", "IndexedIndirectY" >>) @@ (162 :> << "ldx", "Immediate" >>)
    @@ (164 :> << "ldy", "ZeroPage" >>) @@ (165 :> << "lda", "ZeroPage" >>) @@ (166 :> << "ldx", "ZeroPage" >>)
    @@ (168 :> << "tay", "Implied" >>) @@ (169 :> << "lda", "Immediate" >>) @@ (170 :> << "tax", "Implied" >>)
    @@ (172 :> << "ldy", "Absolute" >>) @@ (173 :> << "lda", "Absolute" >>) @@ (174 :> << "ldx", "Absolute" >>)
    @@ (176 :> << "bcs", "Implied" >>) @@ (177 :> << "lda", "IndirectIndexedY" >>) @@ (180 :> << "ldy", "ZeroPageX" >>)
    @@ (181 :> << "lda", "ZeroPageX" >>) @@ (182 :> << "ldx", "ZeroPageY" >>) @@ (184 :> << "clv", "Implied" >>)
    @@ (185 :> << "lda", "AbsoluteY" >>) @@ (186 :> << "tsx", "Implied" >>) @@ (188 :> << "ldy", "AbsoluteX" >>)
    @@ (189 :> << "lda", "AbsoluteX" >>) @@ (190 :> << "ldx", "AbsoluteY" >>) @@ (192 :> << "cpy", "Immediate" >>)
    @@ (193 :> << "cmp", "IndexedIndirectX" >>) @@ (196 :> << "cpy", "ZeroPage" >>) @@ (197 :> << "cmp", "ZeroPage" >>)
    @@ (198 :> << "dec", "ZeroPage" >>) @@ (200 :> << "iny", "Implied" >>) @@ (201 :> << "cmp", "Immediate" >>)
    @@ (202 :> << "dex", "Implied" >>) @@ (204 :> << "cpy", "Absolute" >>) @@ (205 :> << "cmp", "Absolute" >>)
    @@ (206 :> << "dec", "Absolute" >>) @@ (208 :> << "bne", "Implied" >>) @@ (209 :> << "cmp", "IndirectIndexedY" >>)
    @@ (213 :> << "cmp", "ZeroPageX" >>) @@ (214 :> << "dec", "ZeroPageX" >>) @@ (216 :> << "cld", "Implied" >>)
    @@ (217 :> << "cmp", "AbsoluteY" >>) @@ (221 :> << "cmp", "AbsoluteX" >>) @@ (222 :> << "dec", "AbsoluteX" >>)
    @@ (224 :> << "cpx", "Immediate" >>) @@ (225 :> << "sbc", "IndexedIndirectX" >>) @@ (228 :> << "cpx", "ZeroPage" >>)
    @@ (229 :> << "sbc", "ZeroPage" >>) @@ (230 :> << "inc", "ZeroPage" >>) @@ (232 :> << "inx", "Implied" >>)
    @@ (233 :> << "sbc", "Immediate" >>) @@ (234 :> << "nop", "Implied" >>) @@ (236 :> << "cpx", "Absolute" >>)
    @@ (237 :> << "sbc", "Absolute" >>) @@ (238 :> << "inc", "Absolute" >>) @@ (240 :> << "beq", "Implied" >>)
    @@ (241 :> << "sbc", "IndirectIndexedY" >>) @@ (245 :> << "sbc", "ZeroPageX" >>) @@ (246 :> << "inc", "ZeroPageX" >>)
    @@ (248 :> << "sed", "Implied" >>) @@ (249 :> << "sbc", "AbsoluteY" >>) @@ (253 :> << "sbc", "AbsoluteX" >>)
    @@ (254 :> << "inc", "AbsoluteX" >>)

\* register arms of CPU::run (dex, dey, inx, iny): reg += delta, set_zero, set_negative
bump(c, reg, delta) ==
    IF Add8(c[reg], delta).ovf /\ overflow_checks THEN Stop(c, "overflow")
    ELSE set_negative(set_zero([c EXCEPT ![reg] = Add8(@, delta).val],
                               Add8(c[reg], delta).val),
                      Add8(c[reg], delta).val)

\* transfer arms of CPU::run (tax, tay, tsx, txa, tya): to = from, set_zero, set_negative
transfer(c, from, to) ==
    set_negative(set_zero([c EXCEPT ![to] = c[from]], c[from]), c[from])

\* CPU::run, arm 0x00 (brk)
brk(c) ==
    Let([r \in {cpu_read_u16(
            stack_push(stack_push(stack_push(c, c.program_counter \div 256),
                                  c.program_counter % 256),
                       c.status),
            65535)} |->
        IF Halted(r.cpu) THEN r.cpu
        ELSE set_flag([r.cpu EXCEPT !.program_counter = r.val], FlagB, TRUE)])

\* CPU::run, arm 0x20 (jsr), after get_target_address returned t
jsr(t) ==
    IF Halted(t.cpu) THEN t.cpu
    ELSE jmp([cpu |-> stack_push(stack_push(t.cpu, t.cpu.program_counter \div 256),
                                 t.cpu.program_counter % 256),
              addr |-> t.addr])

\* let lsb = self.stack_pop(); let msb = self.stack_pop(): the CPU afterwards
\* and the two bytes
pop_word(c) ==
    Let([lsb \in {stack_pop(c)} |->
    Let([msb \in {stack_pop(lsb.cpu)} |->
        [cpu |-> msb.cpu, lsb |-> lsb.val, msb |-> msb.val]])])

\* CPU::run, arm 0x40 (rti): lsb as u16 + (msb as u16) << 8 is (lsb + msb) << 8
rti(c) ==
    Let([s \in {stack_pop(c)} |->
    Let([p \in {pop_word(IF Halted(s.cpu) THEN s.cpu ELSE [s.cpu EXCEPT !.status = s.val])} |->
        IF Halted(p.cpu) THEN p.cpu
        ELSE [p.cpu EXCEPT !.program_counter = ((p.lsb + p.msb) * 256) % 65536]])])

\* rts adding 1 to the address popped
rts_plus_one(c) ==
    Let([p \in {pop_word(c)} |->
        IF Halted(p.cpu) THEN p.cpu
        ELSE [p.cpu EXCEPT !.program_counter = (p.msb * 256 + p.lsb + 1) % 65536]])

\* CPU::run, arm 0x60 (rts)
rts(c) ==
    Let([p \in {pop_word(c)} |->
        IF Halted(p.cpu) THEN p.cpu
        ELSE [p.cpu EXCEPT !.program_counter = p.msb * 256 + p.lsb]])

\* CPU::run, arm 0x0a (asl on the accumulator)
asl_a(c) ==
    set_negative(set_zero([set_flag(c, FlagC, BitAnd(c.register_a, 128) # 0)
                              EXCEPT !.register_a = Shl8(@, 1)],
                          Shl8(c.register_a, 1)),
                 Shl8(c.register_a, 1))

\* CPU::run, arm 0x4a (lsr on the accumulator): the carry mask is 0b1000_000
lsr_a(c) ==
    set_negative(set_zero([set_flag(c, FlagC, BitAnd(c.register_a, 64) # 0)
                              EXCEPT !.register_a = Shr8(@, 1)],
                          Shr8(c.register_a, 1)),
                 Shr8(c.register_a, 1))

\* CPU::run, arm 0x2a (rol on the accumulator): val << 1 + carry is val << (1 + carry)
rol_a(c) ==
    set_negative(set_zero(set_flag([c EXCEPT !.register_a =
                                                 Shl8(@, 1 + flag_u8(c, FlagC))],
                                   FlagC, BitAnd(c.register_a, 128) # 0),
                          Shl8(c.register_a, 1 + flag_u8(c, FlagC))),
                 Shl8(c.register_a, 1 + flag_u8(c, FlagC)))

\* CPU::run, arm 0x6a (ror on the accumulator): val >> 1 + 128 * carry is
\* val >> (1 + 128 * carry); a shift by 129 panics with overflow checks and
\* is a shift by 129 mod 8 without
ror_a(c) ==
    IF 1 + 128 * flag_u8(c, FlagC) >= 8 /\ overflow_checks THEN Stop(c, "overflow")
    ELSE set_negative(
             set_zero(set_flag([c EXCEPT !.register_a =
                                             Shr8(@, (1 + 128 * flag_u8(c, FlagC)) % 8)],
                               FlagC, BitAnd(c.register_a, 1) # 0),
                      Shr8(c.register_a, (1 + 128 * flag_u8(c, FlagC)) % 8)),
             Shr8(c.register_a, (1 + 128 * flag_u8(c, FlagC)) % 8))

\* CPU::run: the arm of the match for instruction instr in addressing mode mode
execute(c, instr, mode) ==
    CASE instr \in {"adc", "and", "asl", "bit", "dec", "eor", "inc", "lsr", "ora",
                    "rol", "ror", "cmp", "cpx", "cpy", "lda", "ldx", "ldy"} ->
           Let([o \in {operand(c, mode)} |->
               CASE instr = "adc" -> adc(o)
                 [] instr = "and" -> and(o)
                 [] instr = "asl" -> asl(o)
                 [] instr = "bit" -> bit(o)
                 [] instr = "dec" -> dec(o)
                 [] instr = "eor" -> eor(o)
                 [] instr = "inc" -> inc(o)
                 [] instr = "lsr" -> lsr(o)
                 [] instr = "ora" -> ora(o)
                 [] instr = "rol" -> rol(o)
                 [] instr = "ror" -> ror(o)
                 [] instr = "cmp" -> cp(o, "register_a")
                 [] instr = "cpx" -> cp(o, "register_x")
                 [] instr = "cpy" -> cp(o, "register_y")
                 [] instr = "lda" -> ld(o, "register_a")
                 [] instr = "ldx" -> ld(o, "register_x")
                 [] instr = "ldy" -> ld(o, "register_y")])
      [] instr \in {"sta", "stx", "sty", "jmp", "jsr"} ->
           Let([t \in {get_target_address(c, IF instr = "jsr" THEN "Absolute" ELSE mode)} |->
               CASE instr = "sta" -> st(t, "register_a")
                 [] instr = "stx" -> st(t, "register_x")
                 [] instr = "sty" -> st(t, "register_y")
                 [] instr = "jmp" -> jmp(t)
                 [] instr = "jsr" -> jsr(t)])
      [] instr \in {"bcc", "bcs", "beq", "bne", "bmi", "bpl", "bvc", "bvs"} ->
           jump_rel(c, CASE instr = "bcc" -> ~get_flag(c, FlagC)
                         [] instr = "bcs" -> get_flag(c, FlagC)
                         [] instr = "beq" -> get_flag(c, FlagZ)
                         [] instr = "bne" -> ~get_flag(c, FlagZ)
                         [] instr = "bmi" -> get_flag(c, FlagN)
                         [] instr = "bpl" -> ~get_flag(c, FlagN)
                         [] instr = "bvc" -> ~get_flag(c, FlagV)
                         [] instr = "bvs" -> get_flag(c, FlagV))
      [] instr = "sbc" -> sbc(c)
      [] instr = "brk" -> brk(c)
      [] instr = "rti" -> rti(c)
      [] instr = "rts" -> rts(c)
      [] instr = "clc" -> set_flag(c, FlagC, FALSE)
      [] instr = "cld" -> set_flag(c, FlagD, FALSE)
      [] instr = "cli" -> set_flag(c, FlagI, FALSE)
      [] instr = "clv" -> set_flag(c, FlagV, FALSE)
      [] instr = "sec" -> set_flag(c, FlagC, TRUE)
      [] instr = "sed" -> set_flag(c, FlagD, TRUE)
      [] instr = "sei" -> set_flag(c, FlagI, TRUE)
      [] instr = "dex" -> bump(c, "register_x", 255)
      [] instr = "dey" -> bump(c, "register_y", 255)
      [] instr = "inx" -> bump(c, "register_x", 1)
      [] instr = "iny" -> bump(c, "register_y", 1)
      [] instr = "tax" -> transfer(c, "register_a", "register_x")
      [] instr = "tay" -> transfer(c, "register_a", "register_y")
      [] instr = "tsx" -> transfer(c, "stack_pointer", "register_x")
      [] instr = "txa" -> transfer(c, "register_x", "register_a")
      [] instr = "tya" -> transfer(c, "register_y", "register_a")
      [] instr = "txs" -> [c EXCEPT !.stack_pointer = c.register_x]
      [] instr \in {"pha", "php"} ->
           stack_push(c, IF instr = "pha" THEN c.register_a ELSE BitOr(c.status, 16))
      [] instr = "pla" -> ld(stack_pop(c), "register_a")
      [] instr = "plp" ->
           Let([r \in {stack_pop(c)} |->
               IF Halted(r.cpu) THEN r.cpu ELSE [r.cpu EXCEPT !.status = r.val]])
      [] instr = "asl_a" -> asl_a(c)
      [] instr = "lsr_a" -> lsr_a(c)
      [] instr = "rol_a" -> rol_a(c)
      [] instr = "ror_a" -> ror_a(c)
      [] instr = "nop" -> c

\* CPU::run, lines 382-682, after the opcode was fetched: the match
dispatch(f) ==
    IF Halted(f.cpu) THEN f.cpu
    ELSE IF f.val \notin DOMAIN OpTable THEN Stop(f.cpu, "opcode")
    ELSE execute(f.cpu, OpTable[f.val][1], OpTable[f.val][2])

---------------------------------------------------------------------------
(* Inputs *)

Seeds ==
    0..(NumSeeds - 1)

\* rom_reader line 22: the trainer flag of the header
HeaderTrainer(raw) ==
    BitAnd(RawAt(raw, 6), 4) # 0

\* where the PRG data of an image starts
ImageOffset(b6) ==
    HeaderLen + (IF (b6 \div 4) % 2 = 1 THEN TrainerLen ELSE 0)

\* reset vectors put into cartridges: ROM (both halves), work RAM, a PPU stub
\* register, the undecoded range, the last address
ResetVecs ==
    {32768, 49157, 2047, 8192, 16416, 65535}

\* a missing cartridge file
MissingFile ==
    NoImage

\* well-formed NROM-128 cartridges: without trainer for every fill pattern and
\* reset vector, with trainer for one of each
GoodCarts ==
    {MkImage(78, 26, 1, 1, 0, 0, ImageOffset(0) + BodyLen, seed, vec) :
        seed \in Seeds, vec \in ResetVecs}
    \cup {MkImage(78, 26, 1, 1, 4, 0, ImageOffset(4) + BodyLen, 0, 49157)}

\* the cartridges the system is started on
Carts ==
    GoodCarts
    \cup {MissingFile,
          MkImage(78, 26, 2, 1, 0, 0, HeaderLen + Prg256 + ChrSize, 0, 32768),
          MkImage(78, 26, 1, 1, 16, 0, HeaderLen + BodyLen, 0, 32768)}

\* the files the loader is tried on: headers and lengths varied independently
Images ==
    {MissingFile}
    \cup {MkImage(b0, b3, prg, chr, b6, b7, len, seed, 32768) :
            b0 \in {78, 77}, b3 \in {26, 0}, prg \in {1, 2, 3}, chr \in {0, 1},
            b6 \in {0, 4, 16}, b7 \in {0, 2, 8, 10},
            len \in {0, 2, 15, 16, 16 + 16384, 16 + 24576, 528 + 24576, 16 + 40960},
            seed \in Seeds}

\* the images the mappers' load is tried on: magic and version good, so that
\* rom_reader reaches load; bank counts and lengths varied independently
RomImages ==
    {MkImage(78, 26, prg, chr, b6, 0, ImageOffset(b6) + body, seed, 32768) :
        prg \in {1, 2}, chr \in {0, 1, 2}, b6 \in {0, 4},
        body \in {16384, 24576, 32768, 40960, 49152}, seed \in Seeds}

\* bus addresses tried: both ends of every decoded range and of every gap, and
\* all four mirrors of work-RAM cells 0 and 0x7FF
BusProbes ==
    {0, 2048, 4096, 6144, 2047, 4095, 6143, 8191,
     8192, 16383, 16384, 16407, 16408, 16415, 16416, 24575,
     24576, 32767, 32768, 49151, 49152, 65535}

ByteProbes ==
    {0, 85, 170}

\* ROM-window addresses tried: evenly spaced, the ends of both halves, the
\* vectors, and for each one in the lower half its mirror in the upper half
RomProbes ==
    LET base == {RomBase + k * (Prg256 \div NumRomProbes) : k \in 0..(NumRomProbes - 1)}
                \cup {32768, 32769, 49151, 49152, 65532, 65533, 65535}
    IN  base \cup {a + Prg128 : a \in {x \in base : x < RomBase + Prg128}}

ChrProbes ==
    {0, 1, 4095, 8191, 8192}

\* how many of the byte values below the instruction cases use
NumBytes ==
    5

\* register and operand values tried: both ends, both sides of the sign bit,
\* then values with mixed bits
Vals ==
    {<< 0, 255, 128, 127, 1, 66, 165, 90 >>[i] : i \in 1..NumBytes}

\* a well-formed NROM-128 cartridge whose PRG bank starts with the bytes code
\* (they appear at 0x8000) and whose reset vector is 0x8000
WithCode(code) ==
    [MkImage(78, 26, 1, 1, 0, 0, HeaderLen + BodyLen, 0, RomBase)
        EXCEPT !.patch = [i \in (DOMAIN @) \cup {HeaderLen + k - 1 : k \in 1..Len(code)} |->
                            IF i - HeaderLen + 1 \in 1..Len(code)
                            THEN code[i - HeaderLen + 1] ELSE @[i]]]

RECURSIVE SetCells(_)
\* code that stores cells, a sequence of << address, byte >>: LDA #byte, STA address
SetCells(cells) ==
    IF cells = << >> THEN << >>
    ELSE << 169, Head(cells)[2], 141, Head(cells)[1] % 256, Head(cells)[1] \div 256 >>
         \o SetCells(Tail(cells))

\* code that stores cells and leaves A = a, X = x, Y = y, P = p:
\* LDX #x, LDY #y, LDA #p, PHA, LDA #a, PLP
Setup(cells, a, x, y, p) ==
    SetCells(cells) \o << 162, x, 160, y, 169, p, 72, 169, a, 40 >>

\* the addressing mode the 6502 documents for an opcode: the table's, but (d,X) for 0xA1
DocMode(op) ==
    IF op = 161 THEN "IndexedIndirectX" ELSE OpTable[op][2]

\* instruction op with operand byte v, for X = x and Y = y: its bytes, and the
\* cells that put v where the opcode's documented addressing mode finds it (zero
\* page operand 0x10, absolute operand 0x0300, no index sum leaves the page)
Operands(op, v, x, y) ==
    LET mode == DocMode(op)
    IN  CASE mode = "Immediate" -> [code |-> << op, v >>, cells |-> << >>]
          [] mode = "Implied" -> [code |-> << op >>, cells |-> << >>]
          [] mode = "ZeroPage" -> [code |-> << op, 16 >>, cells |-> << << 16, v >> >>]
          [] mode = "ZeroPageX" -> [code |-> << op, 16 >>, cells |-> << << 16 + x, v >> >>]
          [] mode = "ZeroPageY" -> [code |-> << op, 16 >>, cells |-> << << 16 + y, v >> >>]
          [] mode = "Absolute" -> [code |-> << op, 0, 3 >>, cells |-> << << 768, v >> >>]
          [] mode = "AbsoluteX" -> [code |-> << op, 0, 3 >>, cells |-> << << 768 + x, v >> >>]
          [] mode = "AbsoluteY" -> [code |-> << op, 0, 3 >>, cells |-> << << 768 + y, v >> >>]
          [] mode = "IndexedIndirectX" ->
               [code |-> << op, 16 >>,
                cells |-> << << 16 + x, 0 >>, << 17 + x, 3 >>, << 768, v >> >>]
          [] mode = "IndirectIndexedY" ->
               [code |-> << op, 16 >>,
                cells |-> << << 16, 0 >>, << 17, 3 >>, << 768 + y, v >> >>]

\* a program that sets up registers, flags and operand, runs one instruction and
\* then reaches the byte 0x02, which no arm of run matches
OneInstruction(op, a, v, p) ==
    WithCode(Setup(Operands(op, v, 3, 5).cells,
                   IF DocMode(op) = "Implied" THEN v ELSE a, 3, 5, p)
             \o Operands(op, v, 3, 5).code \o << 2 >>)

\* the opcodes of the instructions the cases below run
OpcodesOf(instrs) ==
    {op \in DOMAIN OpTable : OpTable[op][1] \in instrs}

\* cartridges for the arithmetic, logic, load and shift instructions: every
\* opcode with every A, operand and carry
AluCarts ==
    {OneInstruction(op, a, v, 32 + c) :
        op \in OpcodesOf({"adc", "eor", "sbc", "lda", "ldx", "ldy", "asl", "asl_a",
                          "rol", "rol_a", "ror", "ror_a", "lsr", "lsr_a"}),
        a \in Vals, v \in Vals, c \in {0, 1}}

\* cartridges for the compare instructions: every opcode with every value of
\* the compared register and of the operand (CPX and CPY have no indexed mode,
\* so X and Y are free to take the value)
CmpCarts ==
    {OneInstruction(op, r, v, 32) : op \in OpcodesOf({"cmp"}), r \in Vals, v \in Vals}
    \cup {WithCode(Setup(Operands(op, v, r, r).cells, 0, r, r, 32)
                   \o Operands(op, v, r, r).code \o << 2 >>) :
              op \in OpcodesOf({"cpx", "cpy"}), r \in Vals, v \in Vals}

\* cartridges for the branch instructions: every branch opcode with every
\* offset byte r and with no flag, or one of C, Z, V, N, set.  The program sits
\* at 0x8083 (JMP $8083 at the reset address), with 0x02 bytes, which no arm of
\* run matches, wherever a branch of any offset can land outside the program:
\* LDA #p, PHA, PLP, then the branch at 0x8087
BranchCarts ==
    {WithCode(<< 76, 131, 128 >> \o [i \in 1..128 |-> 2]
              \o << 169, 32 + f, 72, 40, op, r >> \o [i \in 1..130 |-> 2]) :
        op \in OpcodesOf({"bcc", "bcs", "beq", "bne", "bmi", "bpl", "bvc", "bvs"}),
        r \in Vals, f \in {0, FlagC, FlagZ, FlagV, FlagN}}

\* cartridges for the stack: LDX #s, TXS, then either JSR to an RTS (at 0x8003,
\* or at 0x80FE so that the return address crosses a page) or LDA #a, PHA, PLA
\* with or without an LDA #$33 in between; and LDA #hi, PHA, LDA #lo, PHA,
\* LDA #p, PHA, RTI; 0x02 where the program ends
StackCarts ==
    {WithCode(<< 162, s, 154, 32, 7, 128, 2, 96, 2 >>) : s \in Vals}
    \cup {WithCode(<< 76, 251, 128 >> \o [i \in 1..248 |-> 2]
                   \o << 162, s, 154, 32, 2, 129, 2, 96, 2 >>) : s \in Vals}
    \cup {WithCode(<< 162, s, 154, 169, a, 72 >> \o between \o << 104, 2 >>) :
              s \in Vals, a \in Vals, between \in {<< >>, << 169, 51 >>}}
    \cup {WithCode(<< 169, hi, 72, 169, lo, 72, 169, p, 72, 64, 2 >>) :
              hi \in Vals, lo \in Vals, p \in {0, 227}}

\* cartridges for the dispatch: every opcode byte as the first instruction after
\* reset, with operand bytes 0x02 0x02 (zero-page cell 2, work-RAM cell 0x0202,
\* branch offset 2) or, for JMP and JSR, 0x02 0x80 (target 0x8002); every byte
\* an instruction of one, two or three bytes can be followed by is one that no
\* arm of run matches
OpcodeCarts ==
    {WithCode(<< op, 2, IF op \in {76, 32} THEN 128 ELSE 2, 2, 2, 2 >>) : op \in 0..255}

\* cartridges for the addressing modes, each program followed by 0x02 bytes:
\* LDX #i, LDY #i, then LDA d,X / STA d,X / LDX d,Y / STX d,Y for every d and i;
\* a pointer to 0x0334 stored at (d + x) mod 256, LDX #x, LDY #7, then each of
\* the eight (d,X) opcodes of the 6502 for every d and x; and JMP (q) for
\* q = 0x0310 and 0x03FF, with the word 0x8018 stored at q (high byte in the
\* same page), 0x80 at q + 1, and the word 0x8019 at the zero-page address that
\* is the low byte of q
AddressCarts ==
    {WithCode(<< 162, i, 160, i, op, d, 2 >>) :
        op \in {181, 149, 182, 150}, d \in Vals, i \in Vals}
    \cup {WithCode(SetCells(<< << (d + x) % 256, 52 >>, << (d + x + 1) % 256, 3 >> >>)
                   \o << 162, x, 160, 7, op, d, 2 >>) :
              op \in {1, 33, 65, 97, 129, 161, 193, 225}, d \in Vals, x \in Vals}
    \cup {WithCode(SetCells(<< << q + 1, 128 >>, << q, 24 >>,
                              << (q \div 256) * 256 + ((q + 1) % 256), 128 >>,
                              << q % 256, 25 >>, << (q % 256) + 1, 128 >> >>)
                   \o << 108, q % 256, q \div 256, 2, 2, 2, 2 >>) : q \in {784, 1023}}

\* the cartridges the CPU is run on
CpuCarts ==
    AluCarts \cup CmpCarts \cup BranchCarts \cup StackCarts \cup OpcodeCarts
        \cup AddressCarts

---------------------------------------------------------------------------
(* Actions *)

NoCall ==
    [op |-> "none", addr |-> 0, val |-> 0, res |-> "none", trainer |-> FALSE]

cpuRegs ==
    << register_a, register_x, register_y, stack_pointer, status >>

busRegs ==
    << address_bus, data_bus, control_bus, data >>

\* the state common to every initial state: no bus, no CPU, nothing called yet
Idle ==
    /\ overflow_checks \in BOOLEAN
    /\ panic = "none"
    /\ reader = "none"
    /\ address_bus = 0 /\ data_bus = 0 /\ control_bus = 0 /\ data = ZeroArray
    /\ register_a = 0 /\ register_x = 0 /\ register_y = 0
    /\ stack_pointer = 255 /\ status = 32 /\ program_counter = 0
    /\ opcode = 0
    /\ trace = << >>
    /\ last = NoCall
    /\ written = << >>
    /\ before = CPU_new
    /\ hist = << [last |-> NoCall, cpu |-> CPU_new], [last |-> NoCall, cpu |-> CPU_new] >>

\* the bus fields, the panic and the accesses made go back into the state
StoreBus(b) ==
    /\ address_bus' = b.address_bus
    /\ data_bus' = b.data_bus
    /\ control_bus' = b.control_bus
    /\ data' = b.data
    /\ rom' = b.rom
    /\ panic' = b.panic
    /\ trace' = b.log

\* main, line 18: rom_reader()
RomReader ==
    /\ pc = "boot" /\ panic = "none"
    /\ LET r == rom_reader(file)
       IN  reader' = r.res /\ panic' = r.panic /\ rom' = r.rom
    /\ pc' = "read"
    /\ UNCHANGED << overflow_checks, file, busRegs, cpuRegs, program_counter,
                    opcode, trace, last, written, before, hist >>

\* main, lines 19-28: the Ok arm up to CPU::new
MainOk ==
    /\ pc = "read" /\ panic = "none" /\ reader = "Ok"
    /\ LET shown == Rom_prg_read(rom, RomBase, overflow_checks)
           b == set_rom(RomBus_new, rom)
       IN  IF shown.panic # "none"
           THEN /\ panic' = shown.panic
                /\ UNCHANGED << rom, busRegs, cpuRegs, program_counter, trace >>
           ELSE /\ StoreBus(b)
                /\ register_a' = CPU_new.register_a
                /\ register_x' = CPU_new.register_x
                /\ register_y' = CPU_new.register_y
                /\ stack_pointer' = CPU_new.stack_pointer
                /\ status' = CPU_new.status
                /\ program_counter' = CPU_new.program_counter
    /\ pc' = "ready"
    /\ UNCHANGED << overflow_checks, file, reader, opcode, last, written, before, hist >>

\* main, lines 31-35: the Err arm
MainErr ==
    /\ pc = "read" /\ panic = "none" /\ reader = "Err"
    /\ pc' = "exit"
    /\ UNCHANGED << overflow_checks, file, panic, reader, rom, busRegs, cpuRegs,
                    program_counter, opcode, trace, last, written, before, hist >>

\* CPU::start, line 375: the program counter is loaded; run() follows
Start ==
    /\ pc = "ready" /\ panic = "none"
    /\ \E r \in {mem_read_u16(Bus, ResetVector)} :
           /\ StoreBus(r.bus)
           /\ program_counter' = IF r.bus.panic = "none" THEN r.val ELSE program_counter
    /\ pc' = "run"
    /\ UNCHANGED << overflow_checks, file, reader, cpuRegs, opcode, last, written, before, hist >>

\* CPU::run, line 382: the opcode fetch of the loop
Fetch ==
    /\ pc = "run" /\ panic = "none"
    /\ \E r \in {fetch(Bus, program_counter)} :
           /\ StoreBus(r.bus)
           /\ opcode' = IF r.bus.panic = "none" THEN r.val ELSE opcode
           /\ program_counter' = r.pc
    /\ pc' = "exec"
    /\ UNCHANGED << overflow_checks, file, reader, cpuRegs, last, written, before, hist >>

\* CPU::mem_read(addr), as called by an instruction
CpuMemRead(addr) ==
    /\ pc = "exec" /\ panic = "none"
    /\ \E r \in {mem_read(Bus, addr)} :
           /\ StoreBus(r.bus)
           /\ last' = [op |-> "read", addr |-> addr, val |-> r.val,
                       res |-> "none", trainer |-> FALSE]
    /\ UNCHANGED << overflow_checks, file, pc, reader, cpuRegs, program_counter,
                    opcode, written, before, hist >>

\* CPU::mem_write(addr, value), as called by an instruction.  written keeps, for
\* an address below 0x2000, the byte under cell addr mod 0x0800.
CpuMemWrite(addr, value) ==
    /\ pc = "exec" /\ panic = "none"
    /\ StoreBus(mem_write(Bus, addr, value))
    /\ last' = [op |-> "write", addr |-> addr, val |-> value,
                res |-> "none", trainer |-> FALSE]
    /\ written' = IF addr >= 8192 THEN written
                  ELSE [c \in (DOMAIN written) \cup {addr % 2048} |->
                          IF c = addr % 2048 THEN value ELSE written[c]]
    /\ UNCHANGED << overflow_checks, file, pc, reader, cpuRegs, program_counter, opcode,
                    before, hist >>

\* (*rom).load(&raw, trainer), rom_reader line 41, on the mapper lines 28-35 made
RomLoad ==
    /\ pc = "rom" /\ panic = "none"
    /\ LET r == Rom_load(rom, file, HeaderTrainer(file))
       IN  /\ rom' = r.rom
           /\ panic' = r.panic
           /\ last' = [op |-> "load", addr |-> 0, val |-> 0, res |-> r.res,
                       trainer |-> HeaderTrainer(file)]
    /\ UNCHANGED << overflow_checks, file, pc, reader, busRegs, cpuRegs,
                    program_counter, opcode, trace, written, before, hist >>

\* (*rom).prg_read(addr)
RomPrgRead(addr) ==
    /\ pc = "rom" /\ panic = "none"
    /\ LET r == Rom_prg_read(rom, addr, overflow_checks)
       IN  /\ panic' = r.panic
           /\ last' = [op |-> "prg_read", addr |-> addr, val |-> r.val,
                       res |-> "none", trainer |-> FALSE]
    /\ UNCHANGED << overflow_checks, file, pc, reader, rom, busRegs, cpuRegs,
                    program_counter, opcode, trace, written, before, hist >>

\* (*rom).chr_read(addr)
RomChrRead(addr) ==
    /\ pc = "rom" /\ panic = "none"
    /\ LET r == Rom_chr_read(rom, addr)
       IN  /\ panic' = r.panic
           /\ last' = [op |-> "chr_read", addr |-> addr, val |-> r.val,
                       res |-> "none", trainer |-> FALSE]
    /\ UNCHANGED << overflow_checks, file, pc, reader, rom, busRegs, cpuRegs,
                    program_counter, opcode, trace, written, before, hist >>

\* CPU::run: one iteration of the loop, from the fetch of the opcode to the end
\* of its arm.  written takes the last byte the step wrote to each work-RAM cell.
Step ==
    /\ pc = "run" /\ panic = "none"
    /\ \E f \in {cpu_fetch(Cpu)} : \E c \in {dispatch(f)} :
           /\ StoreBus(c.memory)
           /\ register_a' = c.register_a
           /\ register_x' = c.register_x
           /\ register_y' = c.register_y
           /\ stack_pointer' = c.stack_pointer
           /\ status' = c.status
           /\ program_counter' = c.program_counter
           /\ opcode' = IF Halted(f.cpu) THEN opcode ELSE f.val
           /\ last' = [op |-> "step", addr |-> program_counter, val |-> f.val,
                       res |-> IF ~Halted(f.cpu) /\ f.val \in DOMAIN OpTable
                               THEN OpTable[f.val][1] ELSE "none",
                       trainer |-> FALSE]
           /\ LET log == c.memory.log
                  w == {i \in 1..Len(log) : log[i].op = "write" /\ log[i].addr < 8192}
              IN  written' = [cell \in (DOMAIN written) \cup {log[i].addr % 2048 : i \in w} |->
                                IF \E i \in w : log[i].addr % 2048 = cell
                                THEN log[CHOOSE i \in w :
                                            /\ log[i].addr % 2048 = cell
                                            /\ \A j \in w : log[j].addr % 2048 = cell => j <= i].val
                                ELSE written[cell]]
    /\ before' = Cpu
    /\ hist' = << [last |-> last, cpu |-> [r \in DOMAIN CPU_new |-> before[r]]], hist[1] >>
    /\ UNCHANGED << overflow_checks, file, pc, reader >>

----------------------------------------------------------------------------
(* ArrayBus: src/src/bus.rs, lines 19-71, driven through the Mem trait by
   CPU::mem_read and CPU::mem_write *)

\* data: [u8; 0xffff]
ArrayLen ==
    65535

\* ArrayBus::update: both branches index data with the address bus
ArrayBus_update(b) ==
    IF ~get_control_signal(b, MemEnable) THEN b
    ELSE IF b.address_bus >= ArrayLen THEN [b EXCEPT !.panic = "index"]
    ELSE IF get_control_signal(b, AccessMode)
    THEN Logged([b EXCEPT !.data_bus = At(b.data, b.address_bus)], "read")
    ELSE Logged([b EXCEPT !.data = Put(b.data, b.address_bus, b.data_bus)], "write")

\* ArrayBus::set_control_signal
ArrayBus_set_control_signal(b, control, val) ==
    IF b.panic # "none" THEN b
    ELSE ArrayBus_update([b EXCEPT !.control_bus = IF val THEN BitOr(@, control)
                                                   ELSE BitAnd(@, BitNot8(control))])

\* CPU::mem_read on a CPU<ArrayBus>: the bus afterwards and the byte returned
ArrayBus_mem_read(b, addr) ==
    LET b1 == ArrayBus_set_control_signal(b, MemEnable, FALSE)
        b2 == set_address_bus(b1, addr)
        b3 == ArrayBus_set_control_signal(b2, AccessMode, TRUE)
        b4 == ArrayBus_set_control_signal(b3, MemEnable, TRUE)
    IN  [bus |-> ArrayBus_set_control_signal(b4, MemEnable, FALSE),
         val |-> get_data_bus(b4)]

\* CPU::mem_write on a CPU<ArrayBus>: the bus afterwards
ArrayBus_mem_write(b, addr, value) ==
    LET b1 == ArrayBus_set_control_signal(b, MemEnable, FALSE)
        b2 == set_address_bus(b1, addr)
        b3 == ArrayBus_set_control_signal(b2, AccessMode, FALSE)
        b4 == set_data_bus(b3, value)
        b5 == ArrayBus_set_control_signal(b4, MemEnable, TRUE)
    IN  ArrayBus_set_control_signal(b5, MemEnable, FALSE)

\* addresses tried on the ArrayBus: the first, one that RomBus mirrors onto
\* it, the first of the ROM window, and the two last addresses
ArrayProbes ==
    {0, 2048, 32768, 65534, 65535}

\* CPU::mem_read(addr) on a CPU<ArrayBus>
ArrayMemRead(addr) ==
    /\ pc = "array" /\ panic = "none"
    /\ \E r \in {ArrayBus_mem_read(Bus, addr)} :
           /\ StoreBus(r.bus)
           /\ last' = [op |-> "read", addr |-> addr, val |-> r.val,
                       res |-> "none", trainer |-> FALSE]
    /\ UNCHANGED << overflow_checks, file, pc, reader, cpuRegs, program_counter,
                    opcode, written, before, hist >>

\* CPU::mem_write(addr, value) on a CPU<ArrayBus>.  written keeps the byte last
\* given for each address.
ArrayMemWrite(addr, value) ==
    /\ pc = "array" /\ panic = "none"
    /\ StoreBus(ArrayBus_mem_write(Bus, addr, value))
    /\ last' = [op |-> "write", addr |-> addr, val |-> value,
                res |-> "none", trainer |-> FALSE]
    /\ written' = [c \in (DOMAIN written) \cup {addr} |->
                     IF c = addr THEN value ELSE written[c]]
    /\ UNCHANGED << overflow_checks, file, pc, reader, cpuRegs, program_counter, opcode,
                    before, hist >>

---------------------------------------------------------------------------
(* Specifications *)

\* The emulator as main runs it: load the cartridge, build bus and CPU, reset,
\* fetch, then the memory accesses of the instructions.
Init ==
    /\ Idle
    /\ file \in Carts
    /\ pc = "boot"
    /\ rom = EmptyRom_new

Next ==
    \/ RomReader
    \/ MainOk
    \/ MainErr
    \/ Start
    \/ Fetch
    \/ \E addr \in BusProbes : CpuMemRead(addr)
    \/ \E addr \in BusProbes, value \in ByteProbes : CpuMemWrite(addr, value)

Spec ==
    Init /\ [][Next]_vars

\* The loader alone, over files whose header and length vary independently.
InitLoader ==
    /\ Idle
    /\ file \in Images
    /\ pc = "boot"
    /\ rom = EmptyRom_new

NextLoader ==
    \/ RomReader
    \/ MainOk
    \/ MainErr

SpecLoader ==
    InitLoader /\ [][NextLoader]_vars

\* The mappers alone: the mapper rom_reader constructs for an image (lines
\* 28-35), then load on that image and reads of PRG and CHR space.
InitRom ==
    /\ Idle
    /\ file \in RomImages
    /\ pc = "rom"
    /\ rom = IF RawAt(file, 4) = 1 THEN Nrom128_new ELSE Nrom256_new

NextRom ==
    \/ RomLoad
    \/ \E addr \in RomProbes : RomPrgRead(addr)
    \/ \E addr \in ChrProbes : RomChrRead(addr)

SpecRom ==
    InitRom /\ [][NextRom]_vars

\* The CPU running a program: the cartridge is loaded, bus and CPU are built,
\* start() reads the reset vector, then run() executes instruction after
\* instruction until the process panics.
InitCpu ==
    /\ Idle
    /\ file \in CpuCarts
    /\ pc = "boot"
    /\ rom = EmptyRom_new

NextCpu ==
    \/ RomReader
    \/ MainOk
    \/ Start
    \/ Step

SpecCpu ==
    InitCpu /\ [][NextCpu]_vars

\* A CPU<ArrayBus> as main.rs lines 33-34 would build it: ArrayBus::new(), then
\* memory reads and writes in any order.
InitArray ==
    /\ Idle
    /\ file = MissingFile
    /\ pc = "array"
    /\ rom = EmptyRom_new

NextArray ==
    \/ \E addr \in ArrayProbes : ArrayMemRead(addr)
    \/ \E addr \in ArrayProbes, value \in ByteProbes : ArrayMemWrite(addr, value)

SpecArray ==
    InitArray /\ [][NextArray]_vars

---------------------------------------------------------------------------
(* Claims *)

\* the work RAM as the writes made through the bus leave it: cell c holds the
\* byte last written to c or one of its mirrors, 0 if none was
RamAsWritten ==
    \A c \in {a % 2048 : a \in {x \in BusProbes : x < 8192}} :
        At(data, c) = (IF c \in DOMAIN written THEN written[c] ELSE 0)

\* C1: on RomBus, once the CPU has written v to a work-RAM address a (or a
\* mirror a + 0x0800*k), a CPU read of a + 0x0800*k returns v for every k in
\* {0,1,2,3}, as long as no later write went to that cell; neither the write
\* nor the read of a work-RAM address stops the process.
C1_RamReadAfterWrite ==
    /\ (pc = "exec" /\ panic = "none") =>
          \A c \in DOMAIN written : \A k \in 0..3 :
              mem_read(Bus, c + 2048 * k).val = written[c]
    /\ (last.op = "read" /\ panic = "none" /\ last.addr < 8192
          /\ (last.addr % 2048) \in DOMAIN written) =>
          last.val = written[last.addr % 2048]
    /\ (last.op \in {"read", "write"} /\ last.addr < 8192) => panic = "none"

\* C1 witness: a read of a mirror (k >= 1) returned a non-zero byte written before
C1_Witness ==
    /\ panic = "none" /\ last.op = "read"
    /\ last.addr >= 2048 /\ last.addr < 8192
    /\ (last.addr % 2048) \in DOMAIN written
    /\ last.val = 170 /\ written[last.addr % 2048] = 170

\* C2: a bus write to an address in [0x8000, 0xFFFF] is a fatal error: the
\* process stops with the ROM-write panic, work RAM holds what the earlier
\* writes left, and the mapper is the one the loader returned.
C2_RomWriteIsFatal ==
    (last.op = "write" /\ last.addr >= 32768 /\ last.addr <= 65535) =>
        /\ panic = "rom_write"
        /\ RamAsWritten
        /\ rom = rom_reader(file).rom

\* C2 witness: a ROM write panicked with work RAM holding a written byte
C2_Witness ==
    /\ last.op = "write" /\ last.addr = 65535 /\ last.val = 85
    /\ panic = "rom_write"
    /\ DOMAIN data # {}
    /\ rom.loaded

\* C3: for NROM-128, prg_read(a) for every a in [0x8000, 0xFFFF] returns
\* prg[(a - 0x8000) mod 0x4000], prg being zeroed at construction and the image
\* bytes after header and trainer once loaded; so prg_read(a) = prg_read(a + 0x4000)
\* for a in [0x8000, 0xBFFF].
C3_Nrom128Mirror ==
    rom.kind = "Nrom128" =>
        /\ \A a \in RomProbes :
             LET r == Rom_prg_read(rom, a, overflow_checks)
                 i == (a - 32768) % 16384
             IN  /\ r.panic = "none"
                 /\ r.val = PrgRomAt(rom, i)
                 /\ r.val = (IF rom.loaded
                             THEN RawAt(file, 16 + (IF HeaderTrainer(file) THEN 512 ELSE 0) + i)
                             ELSE 0)
                 /\ a < 49152 => r.val = Rom_prg_read(rom, a + 16384, overflow_checks).val
        /\ last.op = "prg_read" =>
             /\ panic = "none"
             /\ last.val = PrgRomAt(rom, (last.addr - 32768) % 16384)

\* C3 witness: a read in the upper half of the window of a loaded NROM-128
\* returned the lower half's byte, which is not the image byte 0x4000 further on
C3_Witness ==
    /\ rom.kind = "Nrom128" /\ rom.loaded /\ panic = "none"
    /\ last.op = "prg_read" /\ last.addr >= 49152
    /\ last.val = RawAt(file, rom.prg_off + last.addr - 49152)
    /\ last.val # RawAt(file, rom.prg_off + last.addr - 32768)

\* C4: for NROM-256, prg_read(a) for every a in [0x8000, 0xFFFF] returns
\* prg[a - 0x8000] and does not panic.
C4_Nrom256Read ==
    (last.op = "prg_read" /\ rom.kind = "Nrom256"
        /\ last.addr >= 32768 /\ last.addr <= 65535) =>
        /\ panic = "none"
        /\ last.val = PrgRomAt(rom, last.addr - 32768)

\* C5: load(raw, has_trainer) returns Ok exactly when
\* len(raw) - 16 - (512 if has_trainer) = prg_banks * 16 KiB + chr_banks * 8 KiB,
\* returns Err otherwise and never panics; after Ok, prg and chr are straight
\* copies of the image bytes.
C5_LoadContract ==
    last.op = "load" =>
        LET skip == 16 + (IF last.trainer THEN 512 ELSE 0)
            prg == RawAt(file, 4) * 16384
            chr == RawAt(file, 5) * 8192
        IN  /\ panic = "none"
            /\ last.res \in {"Ok", "Err"}
            /\ last.res = "Ok" <=> file.len - skip = prg + chr
            /\ last.res = "Ok" =>
                 /\ \A i \in {0, 1, prg - 1} : PrgRomAt(rom, i) = RawAt(file, skip + i)
                 /\ \A i \in {0, 1, chr - 1} : ChrRomAt(rom, i) = RawAt(file, skip + prg + i)

IsStub(a) ==
    \/ (8192 <= a /\ a <= 16383)
    \/ (16384 <= a /\ a <= 16407)
    \/ (16408 <= a /\ a <= 16415)
    \/ (24576 <= a /\ a <= 32767)

\* C6: a CPU read of a stub address (0x2000-0x3FFF, 0x4000-0x4017,
\* 0x4018-0x401F, 0x6000-0x7FFF) returns 0, whatever was read or written before.
C6_StubReadsZero ==
    (last.op = "read" /\ panic = "none" /\ IsStub(last.addr)) => last.val = 0

\* the region of an address by the decoding table
RegionOf(a) ==
    IF a <= 8191 THEN "ram"
    ELSE IF a <= 16383 THEN "ppu"
    ELSE IF a <= 16407 THEN "apu_io"
    ELSE IF a <= 16415 THEN "disabled"
    ELSE IF a <= 24575 THEN "todo"
    ELSE IF a <= 32767 THEN "cart_ram"
    ELSE "rom"

\* C7: every bus address is decoded to exactly one region, the same for reads
\* and writes, and a read or write of an address in 0x4020-0x5FFF is a fatal
\* error, never completed silently.
C7_DecodeExactlyOne ==
    /\ \A a \in BusProbes \cup {address_bus, program_counter} :
          /\ Cardinality(Hits(ReadArms, a)) <= 1
          /\ Cardinality(Hits(WriteArms, a)) <= 1
          /\ MatchArm(ReadArms, a) = RegionOf(a)
          /\ MatchArm(WriteArms, a) = RegionOf(a)
    /\ (last.op \in {"read", "write"} /\ last.addr >= 16416 /\ last.addr <= 24575) =>
          panic = "todo"
    /\ (pc = "exec" /\ panic = "none") =>
          \A a \in {16416, 24575} :
              /\ mem_read(Bus, a).bus.panic = "todo"
              /\ mem_write(Bus, a, 85).panic = "todo"

\* C7 witness: a write into the undecoded range after a completed RAM write
C7_Witness ==
    /\ last.op = "write" /\ last.addr = 24575
    /\ panic = "todo"
    /\ DOMAIN written # {}

\* the reset vector of the cartridge: the PRG bytes 0x3FFC and 0x3FFD
ResetWord ==
    LET off == 16 + (IF HeaderTrainer(file) THEN 512 ELSE 0)
    IN  RawAt(file, off + 16381) * 256 + RawAt(file, off + 16380)

\* C8: CPU start sets PC to the little-endian word read from 0xFFFC (low) and
\* 0xFFFD (high) before any opcode is fetched, and the first opcode fetched is
\* the byte at that address.
C8_ResetVector ==
    /\ (pc = "run" /\ panic = "none") =>
          /\ trace = << [op |-> "read", addr |-> 65532, val |-> ResetWord % 256],
                        [op |-> "read", addr |-> 65533, val |-> ResetWord \div 256] >>
          /\ program_counter = ResetWord
    /\ (pc = "exec" /\ panic = "none") =>
          /\ program_counter = (ResetWord + 1) % 65536
          /\ last.op = "none" =>
                trace = << [op |-> "read", addr |-> ResetWord, val |-> opcode] >>
          /\ ResetWord >= 32768 =>
                opcode = RawAt(file, rom.prg_off + ((ResetWord - 32768) % 16384))
          /\ ResetWord <= 8191 => opcode = 0

\* C8 witness: the first fetch done at 0xC005 on a cartridge with a trainer
C8_Witness ==
    /\ pc = "exec" /\ panic = "none" /\ last.op = "none"
    /\ HeaderTrainer(file)
    /\ program_counter = 49158
    /\ trace = << [op |-> "read", addr |-> 49157, val |-> opcode] >>
    /\ opcode = RawAt(file, 528 + 5)

\* C9: for every image shorter than 16 bytes or not starting with 'N','E','S',
\* 0x1A, the loader returns Err, constructs no mapper and does not panic.
C9_BadImageIsErr ==
    (pc # "boot" /\ file.exists
        /\ (file.len < 16 \/ << RawAt(file, 0), RawAt(file, 1), RawAt(file, 2),
                                RawAt(file, 3) >> # << 78, 69, 83, 26 >>)) =>
        /\ panic = "none"
        /\ reader = "Err"
        /\ rom.kind = "EmptyRom"

\* C10: an image whose byte 7 has bits 3..2 = 10 (iNES 2) is reported as a load
\* error; an image whose byte 7 has other bits 3..2 is never rejected for its
\* version.
C10_VersionRule ==
    (pc # "boot" /\ file.exists /\ file.len >= 16
        /\ << RawAt(file, 0), RawAt(file, 1), RawAt(file, 2), RawAt(file, 3) >>
              = << 78, 69, 83, 26 >>) =>
        IF (RawAt(file, 7) \div 4) % 4 = 2
        THEN panic = "none" /\ reader = "Err"
        ELSE panic # "version"

\* C11: the mapper number is (byte6 >> 4) | (byte7 & 0xF0); mapper 0 gives an
\* NROM-128 for one PRG bank and an NROM-256 for two; every other mapper number
\* and every other PRG-bank count is a returned load error with no mapper.
C11_MapperSelect ==
    (pc # "boot" /\ file.exists /\ file.len >= 16
        /\ << RawAt(file, 0), RawAt(file, 1), RawAt(file, 2), RawAt(file, 3) >>
              = << 78, 69, 83, 26 >>) =>
        LET number == (RawAt(file, 6) \div 16) + 16 * (RawAt(file, 7) \div 16)
            banks == RawAt(file, 4)
        IN  IF number = 0 /\ banks \in {1, 2}
            THEN reader = "Ok" =>
                    rom.kind = (IF banks = 1 THEN "Nrom128" ELSE "Nrom256")
            ELSE panic = "none" /\ reader = "Err" /\ rom.kind = "EmptyRom"


\* C12: whenever a step ran LDA, LDX or LDY to completion, in any addressing
\* mode, with v the byte its operand read returned: the target register equals
\* v, Z is set exactly when v = 0, N exactly when bit 7 of v is set, the other
\* registers and the stack pointer are as before, every flag but Z and N is as
\* before, and no memory cell changed (the step made no write).
C12_Load ==
    (last.op = "step" /\ last.res \in {"lda", "ldx", "ldy"} /\ panic = "none") =>
        LET v == trace[Len(trace)].val
            reg == CASE last.res = "lda" -> "register_a"
                     [] last.res = "ldx" -> "register_x"
                     [] last.res = "ldy" -> "register_y"
        IN  /\ trace[Len(trace)].op = "read"
            /\ Cpu[reg] = v
            /\ get_flag(Cpu, FlagZ) = (v = 0)
            /\ get_flag(Cpu, FlagN) = (BitAnd(v, 128) # 0)
            /\ \A r \in {"register_a", "register_x", "register_y", "stack_pointer"} \ {reg} :
                   Cpu[r] = before[r]
            /\ BitAnd(status, 255 - FlagZ - FlagN) = BitAnd(before.status, 255 - FlagZ - FlagN)
            /\ data = before.memory.data
            /\ \A i \in 1..Len(trace) : trace[i].op = "read"

\* LDA $0300,X (0xBD) loaded 0x80 from 0x0303 and set N
C12_Witness ==
    /\ last.op = "step" /\ last.val = 189 /\ panic = "none"
    /\ trace[Len(trace)] = [op |-> "read", addr |-> 771, val |-> 128]
    /\ register_a = 128 /\ get_flag(Cpu, FlagN) /\ ~get_flag(Cpu, FlagZ)


\* the operand of the instruction the last step fetched, resolved and read as
\* the instruction does it, from the CPU as it was before the fetch: the CPU
\* after the read, the byte read and its address (for an opcode with a memory
\* or immediate operand)
OperandBefore ==
    operand(cpu_fetch(before).cpu, OpTable[last.val][2])

\* C13: whenever a step ran ADC, in any addressing mode, with A = a, operand m
\* (read without a panic) and carry c: the step completes without a panic,
\* A = (a + m + c) mod 256, Z is set exactly when A = 0 and N equals bit 7 of A.
C13_AdcResult ==
    (last.op = "step" /\ last.res = "adc" /\ ~Halted(OperandBefore.cpu)) =>
        LET sum == (before.register_a + OperandBefore.val + flag_u8(before, FlagC)) % 256
        IN  /\ panic = "none"
            /\ register_a = sum
            /\ get_flag(Cpu, FlagZ) = (sum = 0)
            /\ get_flag(Cpu, FlagN) = (BitAnd(sum, 128) # 0)


\* C14: whenever a step ran ADC to completion with A = a, operand m and carry
\* c: the carry flag is set exactly when a + m + c > 255.
C14_AdcCarry ==
    (last.op = "step" /\ last.res = "adc" /\ panic = "none") =>
        get_flag(Cpu, FlagC) =
            (before.register_a + OperandBefore.val + flag_u8(before, FlagC) > 255)

\* C15: whenever a step ran ADC to completion with A = a, operand m and carry
\* c, and A' = (a + m + c) mod 256: the overflow flag is set exactly when
\* (~(a XOR m) & (a XOR A') & 0x80) is not 0.
C15_AdcOverflow ==
    (last.op = "step" /\ last.res = "adc" /\ panic = "none") =>
        LET a == before.register_a
            m == OperandBefore.val
            sum == (a + m + flag_u8(before, FlagC)) % 256
        IN  get_flag(Cpu, FlagV) =
                (BitAnd(BitAnd(BitNot8(BitXor(a, m)), BitXor(a, sum)), 128) # 0)

\* ADC $10,X (0x75) added 0x7F + 0x01 with carry clear: A = 0x80 and V is set
C15_Witness ==
    /\ last.op = "step" /\ last.val = 117 /\ panic = "none"
    /\ before.register_a = 127 /\ OperandBefore.val = 1 /\ ~get_flag(before, FlagC)
    /\ register_a = 128 /\ get_flag(Cpu, FlagV)


\* C16: whenever a step fetched an SBC opcode (0xE9, 0xE5, 0xF5, 0xED, 0xFD,
\* 0xF9, 0xE1, 0xF1) with A = a, operand m and carry c: the step completes
\* without a panic, A = (a - m - (1 - c)) mod 256, the carry flag is set exactly
\* when a >= m + (1 - c), Z is set exactly when A = 0 and N equals bit 7 of A.
C16_Sbc ==
    (last.op = "step" /\ last.val \in {233, 229, 245, 237, 253, 249, 225, 241}) =>
        LET a == before.register_a
            m == OperandBefore.val
            borrow == 1 - flag_u8(before, FlagC)
            diff == (a - m - borrow + 512) % 256
        IN  /\ panic = "none"
            /\ register_a = diff
            /\ get_flag(Cpu, FlagC) = (a >= m + borrow)
            /\ get_flag(Cpu, FlagZ) = (diff = 0)
            /\ get_flag(Cpu, FlagN) = (BitAnd(diff, 128) # 0)

\* C17: whenever a step ran EOR to completion, in any addressing mode, with
\* A = a and operand m: A = a XOR m, Z is set exactly when A = 0 and N equals
\* bit 7 of A.
C17_Eor ==
    (last.op = "step" /\ last.res = "eor" /\ panic = "none") =>
        LET x == BitXor(before.register_a, OperandBefore.val)
        IN  /\ register_a = x
            /\ get_flag(Cpu, FlagZ) = (x = 0)
            /\ get_flag(Cpu, FlagN) = (BitAnd(x, 128) # 0)


\* the operand of the shift or rotate the last step ran: the accumulator for
\* the accumulator form, the byte read at the effective address otherwise
ShiftOperand ==
    IF OpTable[last.val][2] = "Implied" THEN before.register_a ELSE OperandBefore.val

\* the last step left new in place of its operand (in the accumulator, or
\* written as its last bus access to the effective address it had read, the
\* accumulator untouched), C = carry, and Z and N derived from new
ShiftOutcome(new, carry) ==
    /\ IF OpTable[last.val][2] = "Implied"
       THEN register_a = new
       ELSE /\ trace[Len(trace) - 1] = [op |-> "read", addr |-> OperandBefore.addr,
                                        val |-> OperandBefore.val]
            /\ trace[Len(trace)] = [op |-> "write", addr |-> OperandBefore.addr,
                                    val |-> new]
            /\ OperandBefore.addr < 8192 =>
                   At(data, OperandBefore.addr % RamSize) = new
            /\ register_a = before.register_a
    /\ get_flag(Cpu, FlagC) = carry
    /\ get_flag(Cpu, FlagZ) = (new = 0)
    /\ get_flag(Cpu, FlagN) = (BitAnd(new, 128) # 0)

\* C18: whenever a step ran ASL to completion on the operand v, in the
\* accumulator form 0x0A or a memory mode: the operand becomes (v << 1) & 0xFF
\* (a memory operand is written back to the effective address it was read at),
\* C equals bit 7 of v, and Z and N are derived from the new value.
C18_Asl ==
    (last.op = "step" /\ last.res \in {"asl", "asl_a"} /\ panic = "none") =>
        ShiftOutcome((2 * ShiftOperand) % 256, BitAnd(ShiftOperand, 128) # 0)

\* ASL $0300,X (0x1E) shifted the 0xFF at 0x0303 to 0xFE, with C and N set
C18_Witness ==
    /\ last.op = "step" /\ last.val = 30 /\ panic = "none"
    /\ ShiftOperand = 255
    /\ trace[Len(trace)] = [op |-> "write", addr |-> 771, val |-> 254]
    /\ At(data, 771) = 254
    /\ get_flag(Cpu, FlagC) /\ get_flag(Cpu, FlagN)

\* C19: whenever a step ran ROL to completion on the operand v with carry c, in
\* the accumulator form 0x2A or a memory mode (0x26, 0x36, 0x2E, 0x3E): the
\* operand becomes ((v << 1) | c) & 0xFF, C equals bit 7 of v, and Z and N are
\* derived from the new value.
C19_Rol ==
    (last.op = "step" /\ last.val \in {42, 38, 54, 46, 62} /\ panic = "none") =>
        ShiftOutcome(BitOr((2 * ShiftOperand) % 256, flag_u8(before, FlagC)),
                     BitAnd(ShiftOperand, 128) # 0)

\* C20: whenever a step ran ROR to completion on the operand v with carry c, in
\* the accumulator form 0x6A or a memory mode (0x66, 0x76, 0x6E, 0x7E): the
\* operand becomes (v >> 1) | (c << 7), C equals bit 0 of v, and Z and N are
\* derived from the new value.
C20_Ror ==
    (last.op = "step" /\ last.val \in {106, 102, 118, 110, 126} /\ panic = "none") =>
        ShiftOutcome(BitOr(ShiftOperand \div 2, 128 * flag_u8(before, FlagC)),
                     BitAnd(ShiftOperand, 1) # 0)


\* C21: whenever a step ran CMP, CPX or CPY to completion with the compared
\* register holding r and the operand m: C is set exactly when r >= m, Z exactly
\* when r = m, N equals bit 7 of (r - m) & 0xFF, and the register still holds r.
C21_Compare ==
    (last.op = "step" /\ last.res \in {"cmp", "cpx", "cpy"} /\ panic = "none") =>
        LET reg == CASE last.res = "cmp" -> "register_a"
                     [] last.res = "cpx" -> "register_x"
                     [] last.res = "cpy" -> "register_y"
            r == before[reg]
            m == OperandBefore.val
        IN  /\ get_flag(Cpu, FlagC) = (r >= m)
            /\ get_flag(Cpu, FlagZ) = (r = m)
            /\ get_flag(Cpu, FlagN) = (BitAnd((r - m + 256) % 256, 128) # 0)
            /\ Cpu[reg] = r


\* the condition under which the branch opcode the last step fetched is to be
\* taken, on the flags before the step: BCC 0x90 C = 0, BCS 0xB0 C = 1,
\* BEQ 0xF0 Z = 1, BNE 0xD0 Z = 0, BMI 0x30 N = 1, BPL 0x10 N = 0, BVC 0x50
\* V = 0, BVS 0x70 V = 1
BranchCondition ==
    CASE last.val = 144 -> ~get_flag(before, FlagC)
      [] last.val = 176 -> get_flag(before, FlagC)
      [] last.val = 240 -> get_flag(before, FlagZ)
      [] last.val = 208 -> ~get_flag(before, FlagZ)
      [] last.val = 48 -> get_flag(before, FlagN)
      [] last.val = 16 -> ~get_flag(before, FlagN)
      [] last.val = 80 -> ~get_flag(before, FlagV)
      [] last.val = 112 -> get_flag(before, FlagV)

\* C22: whenever a step ran a branch opcode to completion, with the opcode at
\* address p: if the opcode's condition is false the PC is p + 2, if it is true
\* and the offset byte is not 0 the PC is not p + 2 (the branch is taken); in
\* both cases A, X, Y, S and every flag are as before, and no memory cell
\* changed (the step made no write).
C22_BranchCondition ==
    (last.op = "step" /\ panic = "none"
        /\ last.val \in {144, 176, 240, 208, 48, 16, 80, 112}) =>
        /\ ~BranchCondition => program_counter = last.addr + 2
        /\ (BranchCondition /\ trace[2].val # 0) => program_counter # last.addr + 2
        /\ \A r \in {"register_a", "register_x", "register_y", "stack_pointer", "status"} :
               Cpu[r] = before[r]
        /\ data = before.memory.data
        /\ \A i \in 1..Len(trace) : trace[i].op = "read"

\* BNE (0xD0) at 0x8087 with Z clear (and N set) and offset 0x7F was taken, to 0x8108
C22_Witness ==
    /\ last.op = "step" /\ last.val = 208 /\ last.addr = 32903 /\ panic = "none"
    /\ ~get_flag(before, FlagZ) /\ get_flag(before, FlagN)
    /\ trace[2] = [op |-> "read", addr |-> 32904, val |-> 127]
    /\ program_counter = 33032

\* C23: whenever a step ran a branch opcode whose condition is true, with the
\* offset byte r fetched from address p: the step completes without a panic
\* and the PC is (p + 1 + sext(r)) mod 2^16, where sext(r) = r for r < 0x80 and
\* r - 256 for r >= 0x80.
C23_BranchTarget ==
    (last.op = "step" /\ last.val \in {144, 176, 240, 208, 48, 16, 80, 112}
        /\ Len(trace) = 2 /\ BranchCondition) =>
        LET p == trace[2].addr
            r == trace[2].val
        IN  /\ panic = "none"
            /\ program_counter =
                   (p + 1 + (IF r < 128 THEN r ELSE r - 256) + 65536) % 65536


\* C24: whenever a step ran RTS to completion and the step before it was a JSR
\* with its opcode at address p: the PC is p + 3 and S is what it was before the
\* JSR.
C24_JsrRts ==
    (last.op = "step" /\ last.res = "rts" /\ panic = "none"
        /\ hist[1].last.op = "step" /\ hist[1].last.res = "jsr") =>
        /\ program_counter = hist[1].last.addr + 3
        /\ stack_pointer = hist[1].cpu.stack_pointer

\* JSR at 0x80FE with S = 0x80, then RTS: back at 0x8101 with the two stack
\* cells read back
C24_Witness ==
    /\ last.op = "step" /\ last.res = "rts" /\ panic = "none"
    /\ hist[1].last.op = "step" /\ hist[1].last.res = "jsr" /\ hist[1].last.addr = 33022
    /\ hist[1].cpu.stack_pointer = 128 /\ before.stack_pointer = 126
    /\ program_counter = 33025 /\ stack_pointer = 128
    /\ trace[2] = [op |-> "read", addr |-> 383, val |-> 1]
    /\ trace[3] = [op |-> "read", addr |-> 384, val |-> 129]

\* C25: whenever a step ran PLA to completion and the step before it was a PHA,
\* or an LDA that itself followed a PHA: A and S are what they were before the
\* PHA, Z is set exactly when the byte popped (the step's second bus read) is
\* 0, and N is bit 7 of that byte.
C25_PhaPla ==
    (last.op = "step" /\ last.res = "pla" /\ panic = "none") =>
        \A k \in {1, 2} :
            (/\ hist[k].last.op = "step" /\ hist[k].last.res = "pha"
             /\ k = 2 => (hist[1].last.op = "step" /\ hist[1].last.res = "lda")) =>
                /\ register_a = hist[k].cpu.register_a
                /\ stack_pointer = hist[k].cpu.stack_pointer
                /\ trace[2].op = "read"
                /\ get_flag(Cpu, FlagZ) = (trace[2].val = 0)
                /\ get_flag(Cpu, FlagN) = (BitAnd(trace[2].val, 128) # 0)

\* PHA with A = 0x80 and S = 0x00, LDA #$33, PLA in a build where S wraps: A is
\* 0x80 again, S is 0x00, N is set
C25_Witness ==
    /\ last.op = "step" /\ last.res = "pla" /\ panic = "none"
    /\ hist[2].last.op = "step" /\ hist[2].last.res = "pha"
    /\ hist[2].cpu.register_a = 128 /\ hist[2].cpu.stack_pointer = 0
    /\ hist[1].last.res = "lda" /\ before.register_a = 51 /\ before.stack_pointer = 255
    /\ register_a = 128 /\ stack_pointer = 0 /\ get_flag(Cpu, FlagN) /\ ~get_flag(Cpu, FlagZ)


\* C30: whenever a step ran JSR to completion with its opcode at address p and
\* S = s before it, the step's two bus writes are the high byte of p + 2 to
\* 0x0100 + s and then the low byte of p + 2 to 0x0100 + (s - 1) mod 256; and
\* whenever a step ran RTS to completion, the PC is the word it popped (low
\* byte first) plus 1, mod 2^16.
C30_ReturnAddress ==
    /\ (last.op = "step" /\ last.res = "jsr" /\ panic = "none") =>
           /\ Len(trace) = 5
           /\ trace[4] = [op |-> "write", addr |-> 256 + before.stack_pointer,
                          val |-> (last.addr + 2) \div 256]
           /\ trace[5] = [op |-> "write", addr |-> 256 + ((before.stack_pointer + 255) % 256),
                          val |-> (last.addr + 2) % 256]
    /\ (last.op = "step" /\ last.res = "rts" /\ panic = "none") =>
           program_counter = (trace[3].val * 256 + trace[2].val + 1) % 65536


\* C29: whenever a step ran LSR to completion on the operand v, in the
\* accumulator form 0x4A or a memory mode: the operand becomes v >> 1 (a memory
\* operand is written back to the effective address it was read at), C equals
\* bit 0 of v, Z is set exactly when v >> 1 is 0, and N is clear.
C29_Lsr ==
    (last.op = "step" /\ last.res \in {"lsr", "lsr_a"} /\ panic = "none") =>
        /\ ShiftOutcome(ShiftOperand \div 2, ShiftOperand % 2 = 1)
        /\ ~get_flag(Cpu, FlagN)


\* C28: once the bus is in use, every work-RAM cell holds the byte that the
\* last CPU write to an address below 0x2000 congruent to it mod 0x0800 stored,
\* or 0 if there was none (so no read, no write to another cell and no write to
\* a device address changed it), the ROM is the mapper the loader returned, and
\* a CPU write to 0x2000-0x401F or 0x6000-0x7FFF ended without a panic.
C28_BusFrame ==
    (pc \in {"run", "exec"}) =>
        /\ \A cell \in DOMAIN data \cup DOMAIN written :
               At(data, cell) = At(written, cell)
        /\ rom = rom_reader(file).rom
        /\ (last.op = "write" /\ last.addr \in (8192..16415) \cup (24576..32767)) =>
               panic = "none"

\* a write of 0x55 to 0x6000, whose address is 0 mod 0x0800, completed while
\* cell 0 holds the 0xAA written before and cell 0x07FF the 0x55 written before
C28_Witness ==
    /\ pc = "exec" /\ panic = "none"
    /\ last.op = "write" /\ last.addr = 24576 /\ last.val = 85
    /\ At(data, 0) = 170 /\ At(data, 2047) = 85
    /\ trace[Len(trace)] = [op |-> "write", addr |-> 24576, val |-> 85]


\* the opcode bytes of the documented instruction set: the 151 opcodes of the
\* 56 mnemonics in their canonical addressing modes.  The arms of run are that
\* set with the byte 0x54 where LSR absolute,X (0x5E) belongs.
DocumentedOpcodes ==
    ((DOMAIN OpTable) \ {84}) \cup {94}

\* C26: whenever a step fetched a documented opcode byte, 0x5E and the eight
\* SBC opcodes included, the byte was dispatched to an instruction and the step
\* ended neither in the unrecognised-opcode panic nor in a todo!().
C26_DocumentedOpcodesRun ==
    (last.op = "step" /\ Len(trace) >= 1 /\ last.val \in DocumentedOpcodes) =>
        /\ last.res # "none"
        /\ panic \notin {"opcode", "todo"}

\* C27: whenever a step fetched an opcode byte outside the documented set (0x54
\* for one), the step ended in the unrecognised-opcode panic, with A, X, Y, S
\* and P as before, no bus access but the fetch, and work RAM as before.
C27_UndocumentedOpcodesHalt ==
    (last.op = "step" /\ Len(trace) >= 1 /\ last.val \notin DocumentedOpcodes) =>
        /\ panic = "opcode"
        /\ last.res = "none"
        /\ \A r \in {"register_a", "register_x", "register_y", "stack_pointer", "status"} :
               Cpu[r] = before[r]
        /\ Len(trace) = 1
        /\ data = before.memory.data


\* C31: whenever a step ran BRK to completion with S = s before it, its three
\* bus writes are, in this order, the high byte of the PC to 0x0100 + s, the low
\* byte of the PC to 0x0100 + (s - 1) mod 256 and P with bit 4 (B) set to
\* 0x0100 + (s - 2) mod 256, the PC pushed being the address after the opcode
\* or the one after that; S is (s - 3) mod 256 and B is set in P.
C31_BrkPushes ==
    (last.op = "step" /\ last.res = "brk" /\ panic = "none") =>
        /\ Len(trace) >= 4
        /\ \A i \in 2..4 :
               /\ trace[i].op = "write"
               /\ trace[i].addr = 256 + ((before.stack_pointer + 258 - i) % 256)
        /\ trace[2].val * 256 + trace[3].val \in {last.addr + 1, last.addr + 2}
        /\ trace[4].val = BitOr(before.status, 16)
        /\ stack_pointer = (before.stack_pointer + 253) % 256
        /\ get_flag(Cpu, FlagB)

\* C32: whenever a step ran BRK and its three pushes completed, the step
\* completes, its only bus reads after the pushes are 0xFFFE and then 0xFFFF,
\* and the PC is the word with the first as low and the second as high byte.
C32_BrkVector ==
    (last.op = "step" /\ last.res = "brk" /\ Len(trace) >= 4 /\ trace[4].op = "write") =>
        /\ panic = "none"
        /\ Len(trace) = 6
        /\ trace[5].op = "read" /\ trace[5].addr = 65534
        /\ trace[6].op = "read" /\ trace[6].addr = 65535
        /\ program_counter = trace[6].val * 256 + trace[5].val


\* C33: whenever a step ran RTI to completion, its three bus reads after the
\* fetch are the pops of p, lo and hi in that order from 0x0100 + S + 1, + 2
\* and + 3 (mod 256), P is p and the PC is hi * 256 + lo.
C33_Rti ==
    (last.op = "step" /\ last.res = "rti" /\ panic = "none") =>
        /\ Len(trace) = 4
        /\ \A i \in 2..4 :
               /\ trace[i].op = "read"
               /\ trace[i].addr = 256 + ((before.stack_pointer + i - 1) % 256)
        /\ status = trace[2].val
        /\ program_counter = trace[4].val * 256 + trace[3].val


\* C34: whenever a step ran PHA with S = s and A = a before it (s may be 0x00),
\* the step completes, its one bus write is a to 0x0100 + s and S is
\* (s - 1) mod 256; whenever a step ran PLA with S = s before it (s may be
\* 0xFF), the step completes, S is (s + 1) mod 256 and its one bus read after
\* the fetch is of 0x0100 + (s + 1) mod 256; either address is in
\* [0x0100, 0x01FF].
C34_StackDiscipline ==
    /\ (last.op = "step" /\ last.res = "pha" /\ Len(trace) >= 1) =>
           /\ panic = "none"
           /\ Len(trace) = 2
           /\ trace[2] = [op |-> "write", addr |-> 256 + before.stack_pointer,
                          val |-> before.register_a]
           /\ stack_pointer = (before.stack_pointer + 255) % 256
    /\ (last.op = "step" /\ last.res = "pla" /\ Len(trace) >= 1) =>
           /\ panic = "none"
           /\ Len(trace) = 2
           /\ stack_pointer = (before.stack_pointer + 1) % 256
           /\ trace[2].op = "read" /\ trace[2].addr = 256 + stack_pointer


\* C35: whenever a step ran an instruction in ZeroPageX or ZeroPageY mode to
\* completion, with operand byte d (the step's second bus read) and the index
\* register holding i before it, the effective address, which is the address
\* of the step's last bus access, is (d + i) mod 256.
C35_ZeroPageIndexed ==
    (last.op = "step" /\ last.res # "none" /\ panic = "none"
        /\ OpTable[last.val][2] \in {"ZeroPageX", "ZeroPageY"}) =>
        LET d == trace[2].val
            i == IF OpTable[last.val][2] = "ZeroPageX" THEN before.register_x
                 ELSE before.register_y
        IN  /\ Len(trace) >= 3
            /\ trace[Len(trace)].addr = (d + i) % 256


\* C36: whenever a step ran one of the (d,X) opcodes 0x01, 0x21, 0x41, 0x61,
\* 0x81, 0xA1, 0xC1, 0xE1 to completion, with operand byte d (the step's second
\* bus read) and X = x before it, the step's third bus access is the read of
\* the pointer's low byte at (d + x) mod 256, the fourth the read of its high
\* byte, and the fifth, the access of the operand, is at the address these two
\* bytes form, low byte first.
C36_IndexedIndirect ==
    (last.op = "step" /\ panic = "none"
        /\ last.val \in {1, 33, 65, 97, 129, 161, 193, 225}) =>
        /\ Len(trace) = 5
        /\ trace[3].op = "read" /\ trace[4].op = "read"
        /\ trace[3].addr = (trace[2].val + before.register_x) % 256
        /\ trace[5].addr = trace[4].val * 256 + trace[3].val

\* C37: whenever a step ran JMP indirect (0x6C) to completion, it fetched two
\* operand bytes lo and hi, then read the byte at q = hi * 256 + lo and the
\* byte at the address in q's page with low byte (q + 1) mod 256, and the PC is
\* the word these form, low byte first; whenever a step ran JMP absolute (0x4C)
\* to completion, the PC is the word its two operand bytes form.
C37_Jmp ==
    /\ (last.op = "step" /\ last.val = 108 /\ panic = "none") =>
           /\ Len(trace) = 5
           /\ trace[2].addr = last.addr + 1 /\ trace[3].addr = last.addr + 2
           /\ LET q == trace[3].val * 256 + trace[2].val
              IN  /\ trace[4].addr = q
                  /\ trace[5].addr = (q \div 256) * 256 + ((q + 1) % 256)
           /\ program_counter = trace[5].val * 256 + trace[4].val
    /\ (last.op = "step" /\ last.val = 76 /\ panic = "none") =>
           /\ Len(trace) = 3
           /\ program_counter = trace[3].val * 256 + trace[2].val


\* C38: between the CPU's memory accesses, while the process has not panicked,
\* MemEnable is low; a completed
\* mem_read(addr) made the bus carry out exactly one access, the read of addr
\* whose byte it returned, and a completed mem_write(addr, v) exactly one, the
\* write of v to addr, whichever AccessMode the access before had left; and
\* from the bus as it stands, or after any one further bus call, no single bus
\* call (set_control_signal, set_address_bus, set_data_bus) changes work RAM
\* unless it leaves MemEnable high and AccessMode on write (clear).
C38_BusProtocol ==
    (pc \in {"ready", "run", "exec"} /\ panic = "none") =>
        /\ ~get_control_signal(Bus, MemEnable)
        /\ (last.op \in {"read", "write"}) =>
               trace = << [op |-> last.op, addr |-> last.addr, val |-> last.val] >>
        /\ LET calls(b) ==
                   {set_control_signal(b, c, v) : c \in {MemEnable, AccessMode}, v \in BOOLEAN}
                   \cup {set_address_bus(b, a) : a \in {0, 2049, 8192}}
                   \cup {set_data_bus(b, v) : v \in {0, 85}}
           IN  \A b1 \in {Bus} \cup calls(Bus) : \A b2 \in calls(b1) :
                   b2.data # b1.data =>
                       /\ get_control_signal(b2, MemEnable)
                       /\ ~get_control_signal(b2, AccessMode)

\* a read of the mirror 0x0800 returned the 0xAA written before: the write had
\* left AccessMode clear, the read leaves it set, MemEnable is low, and the
\* read was the one access carried out
C38_Witness ==
    /\ pc = "exec" /\ panic = "none"
    /\ last.op = "read" /\ last.addr = 2048 /\ last.val = 170
    /\ At(data, 0) = 170
    /\ control_bus = AccessMode
    /\ trace = << [op |-> "read", addr |-> 2048, val |-> 170] >>


\* C39: bit 5 (0x20) of P is set in every state of the CPU, from construction
\* on, whatever instructions ran.
C39_UnusedBitSet ==
    BitAnd(status, 32) # 0


\* C40: on the ArrayBus every read and every write of an address in
\* [0x0000, 0xFFFF] completes without a panic; a read of an address written
\* before returns the byte last written to it; and every cell holds the byte
\* last written to its own address, 0 if none was (no write changed another
\* cell).
C40_ArrayBusFlat ==
    (pc = "array") =>
        /\ (last.op \in {"read", "write"}) => panic = "none"
        /\ (last.op = "read" /\ last.addr \in DOMAIN written) =>
               last.val = written[last.addr]
        /\ \A cell \in DOMAIN data \cup DOMAIN written :
               At(data, cell) = At(written, cell)

=============================================================================
